---- MODULE Spec2Model ----
(***************************************************************************)
(* Model of the LLM invocation core of AGENT-OPEN-SOURCE:                  *)
(*   llm_providers.py  provider registry and chat_with_fallback            *)
(*   base_agent.py     AgentMemory, BaseAgent._call_with_retry, think,     *)
(*                     safe_execute                                        *)
(*   orchestrator.py   AgentRegistry, Orchestrator.run                     *)
(* Every await of the Python code is a step boundary of the model.         *)
(***************************************************************************)
EXTENDS Integers, Sequences, FiniteSets, TLC

\* ------------------------------------------------------------------------
\* Bounds of the model
\* ------------------------------------------------------------------------
\* longest explicit provider list handed to chat_with_fallback
MaxProviders == 2

\* largest max_retries an agent is constructed with
MaxRetries == 3

\* most think calls one execute makes
MaxThinks == 2

\* longest explicit agent list handed to Orchestrator.run
MaxAgents == 3

\* max_memory_entries of the agent's AgentMemory (50 in the source)
MaxEntries == 2

\* longest message list passed to an adapter
MaxMessages == 3

\* longest agent list of the caller that keeps its dict
MaxBatch == 2

\* most direct calls of get_provider
MaxCalls == 3

\* safe_execute calls that may overlap on one agent instance
MaxOverlap == 2

\* max_entries of the memory of the agent the overlapping calls share
MemoryCap == 4

\* ------------------------------------------------------------------------
\* Texts.  A Python str is a sequence of atoms: single characters, or one
\* atom standing for a fixed piece of text whose inside never matters.
\* ------------------------------------------------------------------------
\* Python's None, kept apart from every text (the empty text is <<>>)
NONE == <<"<None>">>

\* str(x) inside an f-string
Str(x) == IF x = NONE THEN <<"None">> ELSE x

\* sep.join(parts)
RECURSIVE Join(_, _)
Join(parts, sep) ==
    IF parts = <<>> THEN <<>>
    ELSE IF Len(parts) = 1 THEN Head(parts)
    ELSE Head(parts) \o sep \o Join(Tail(parts), sep)

\* sub occurs in text at position p
OccursAt(text, sub, p) ==
    /\ p >= 1
    /\ p + Len(sub) - 1 <= Len(text)
    /\ \A i \in 1..Len(sub) : text[p + i - 1] = sub[i]

\* Python's `sub in text`
Contains(text, sub) == \E p \in 1..(Len(text) + 1) : OccursAt(text, sub, p)

\* ------------------------------------------------------------------------
\* llm_providers.py : registry
\* ------------------------------------------------------------------------
\* _PROVIDERS, in dict insertion order
PROVIDERS == <<"openai", "anthropic", "google", "groq", "ollama">>

ProviderKeys == {PROVIDERS[i] : i \in 1..Len(PROVIDERS)}

\* the adapters whose __init__ reads an API key from the environment
HostedProviders == {"openai", "anthropic", "google", "groq"}

\* names a caller may put in an explicit provider list
ProviderInputs == {"openai", "OpenAI", "ollama", "bogus"}

\* str.lower() on the names the model uses
Lower(name) == IF name = "OpenAI" THEN "openai" ELSE name

\* completion texts of one adapter call
ChatContents == {<<>>, <<"h", "e", "l", "l", "o">>}

\* explicit provider lists a caller may pass
RECURSIVE SeqsUpTo(_, _)
SeqsUpTo(S, n) ==
    IF n = 0 THEN {<<>>}
    ELSE LET shorter == SeqsUpTo(S, n - 1)
         IN  shorter \cup {Append(s, x) : s \in {t \in shorter : Len(t) = n - 1}, x \in S}

ProviderLists == SeqsUpTo(ProviderInputs, MaxProviders)

VARIABLES
    api_key,             \* hosted providers whose API key is set in the environment
    provider_instances,  \* _provider_instances: the memoized adapters, as [name, id]
    gp_made,             \* history: per registry key, the adapters get_provider has built
    gp_log,              \* history: the direct calls of get_provider and what they gave
    ga_result,           \* what the last direct get_available_providers() returned
    fb_pc,               \* chat_with_fallback: "idle", "loop", "await", "done"
    fb_caller,           \* who called chat_with_fallback: "direct" or "retry"
    fb_arg,              \* the providers argument as passed (NONE when omitted)
    fb_providers,        \* the providers list after the None default
    fb_idx,              \* 1-based position of the for loop
    fb_errors,           \* errors: list of texts
    fb_result,           \* the returned LLMResponse (NoResponse before the return)
    fb_attempts,         \* history: one record per provider tried in this call
    \* --- BaseAgent ---
    provider_name,       \* self.provider_name, the primary provider
    max_retries,         \* self.max_retries
    agent_provider,      \* self._provider: "<None>" or the key of the adapter held
    metrics,             \* self.metrics (ExecutionMetrics)
    mem_entries,         \* self.memory.entries: list of [role, content]
    mem_token_estimate,  \* self.memory._token_estimate
    mem_recent,          \* history: the last MaxEntries entries passed to add since the
                         \* memory was built or cleared, oldest first
    mem_count,           \* history: how many were passed, counted up to MaxEntries + 1
    \* --- BaseAgent._call_with_retry ---
    cr_pc,               \* "idle", "attempt", "await", "sleep", "fallback", "done"
    cr_attempt,          \* the loop variable attempt
    cr_last_error,       \* last_error
    cr_result,           \* the returned LLMResponse
    cr_log,              \* history: primary attempts, waits and fallback calls in order
    cr_retries0,         \* history: metrics.retries when the call started
    \* --- BaseAgent.think ---
    th_pc,               \* "idle", "calling", "returned", "raised"
    th_prompt,           \* the prompt argument
    th_system,           \* the system_prompt argument (NONE when omitted)
    th_use_memory,       \* the use_memory argument
    th_messages,         \* messages, as handed to _call_with_retry
    th_value,            \* the returned text, or the text of the raised RuntimeError
    \* --- BaseAgent.safe_execute and the agent's execute ---
    se_pc,               \* "idle", "executing", "done", "escaped"
    se_impl,             \* "core" (AGENT-OPEN-SOURCE/...) or "legacy" (AGENT_OPEN_SOURCE/...)
    se_thinks,           \* think calls made by the running execute
    se_raised,           \* history: the exception execute raised, NoException if none
    se_result,           \* the AgentResult returned by safe_execute
    \* --- AgentRegistry ---
    reg_agents,          \* _agents: the registered names, in registration order
    reg_ctor_raises,     \* registered names whose agent class raises in its constructor
    reg_instances,       \* _instances: names with a memoized agent instance
    \* --- Orchestrator.run ---
    context,             \* self.context: a dict, as the set of its items
    run_pc,              \* "idle", "seq", "seq_await", "par", "done", "raised"
    run_task,            \* the task argument
    run_arg,             \* the agents argument as passed (NONE when omitted)
    run_mode,            \* "sequential" or "parallel"
    run_agents,          \* agents after auto-selection
    run_idx,             \* 1-based position of the loop of _run_sequential
    results,             \* the results dict: list of [name, result] in key order
    par_tasks,           \* _run_parallel: per list position, the run_agent coroutine
    par_order,           \* history: list positions in the order their coroutines finished
    inv_log,             \* history: one record per agent processed by _run_sequential
    seq_input,           \* _run_sequential: the input_data of the agent being awaited
    initial_context,     \* the initial_context argument of run: None, or the caller's dict
    run_seed,            \* history: self.context when run has seeded it
    par_writes,          \* history: writes agents of a batch made to the context they got
    run_result,          \* the PipelineResult returned by run
    \* --- one adapter's chat called directly ---
    httpx,               \* the module-level httpx: TRUE when the import succeeded
    ad_pc,               \* "idle", "posting", "done", "raised"
    ad_name,             \* the registry key of the adapter
    ad_messages,         \* the messages argument: list of [role, content]
    ad_payload,          \* the payload built for the request
    ad_requests,         \* history: HTTP requests issued by this call
    ad_wire,             \* history: what the transport answered
    ad_resp,             \* the returned LLMResponse
    \* --- the sampling arguments of one think call ---
    self_temperature,    \* self.temperature, in tenths
    self_max_tokens,     \* self.max_tokens
    ta_pc,               \* "idle", "called"
    ta_temperature,      \* the temperature argument of think: [given, value]
    ta_max_tokens,       \* the max_tokens argument of think: [given, value]
    ta_json_mode,        \* the json_mode argument of think
    ta_passed,           \* the keyword arguments provider.chat received
    \* --- one parse_json_response call ---
    pj_pc,               \* "idle", "returned", "raised"
    pj_content,          \* the content argument: the completion text
    pj_result,           \* what the call returned or raised
    \* --- safe_execute calls overlapping on one agent instance ---
    ov_pc,               \* per call: "idle", "executing", "awaiting", "fallback", "done"
    ov_attempt,          \* per call: the loop variable attempt of _call_with_retry
    ov_thinks,           \* per call: think calls made by its execute
    ov_own,              \* history, per call: the retries, tokens and errors of that call
    ov_result,           \* per call: the AgentResult returned by safe_execute
    ov_overlapped,       \* history, per call: another call was running during it
    ov_heap,             \* the ExecutionMetrics objects built so far
    ov_self,             \* self.metrics: the position in ov_heap of the current object
    ov_memory            \* self.memory.entries of the shared agent

regVars == <<provider_instances, gp_made>>

provVars == <<api_key, regVars, gp_log, ga_result>>
fbVars == <<fb_pc, fb_caller, fb_arg, fb_providers, fb_idx, fb_errors, fb_result, fb_attempts>>
agentVars == <<provider_name, max_retries, agent_provider, metrics>>
memVars == <<mem_entries, mem_token_estimate, mem_recent, mem_count>>
crVars == <<cr_pc, cr_attempt, cr_last_error, cr_result, cr_log, cr_retries0>>
thArgs == <<th_prompt, th_system, th_use_memory, th_messages>>
thVars == <<th_pc, thArgs, th_value>>
seVars == <<se_pc, se_impl, se_thinks, se_raised, se_result>>

argVars == <<self_temperature, self_max_tokens, ta_pc, ta_temperature, ta_max_tokens,
             ta_json_mode, ta_passed>>

pjVars == <<pj_pc, pj_content, pj_result>>

\* the state of the calls that are followed on their own
ovVars == <<ov_pc, ov_attempt, ov_thinks, ov_own, ov_result, ov_overlapped, ov_heap, ov_self,
            ov_memory>>

extVars == <<argVars, pjVars, ovVars>>

adVars == <<httpx, ad_pc, ad_name, ad_messages, ad_payload, ad_requests, ad_wire, ad_resp,
            extVars>>

callVars == <<initial_context, run_seed, par_writes>>

orchVars == <<reg_agents, reg_ctor_raises, reg_instances, context, run_pc, run_task,
              run_arg, run_mode, run_agents, run_idx, results, par_tasks, par_order,
              inv_log, seq_input, run_result, callVars>>

\* the state of one agent
agentFrame == <<agentVars, memVars, crVars, thVars, seVars>>

\* everything chat_with_fallback never touches
fbFrame == <<agentFrame, orchVars>>

\* LLMResponse(success, content, model, provider, usage, error)
LLMResponse(success, content, provider, total, error) ==
    [success |-> success, content |-> content, provider |-> provider,
     total_tokens |-> total, error |-> error]

\* the value of a response variable that holds no response yet
NoResponse == LLMResponse(FALSE, <<>>, "<unset>", 0, NONE)

\* BaseLLMProvider.is_available: bool(self.api_key or self.base_url);
\* every adapter constructor sets base_url
base_url(name) == TRUE

is_available(name) == (name \in api_key) \/ base_url(name)

\* get_available_providers(): the configured providers, in registry order
RECURSIVE AvailableFrom(_)
AvailableFrom(s) ==
    IF s = <<>> THEN <<>>
    ELSE IF is_available(Head(s)) THEN <<Head(s)>> \o AvailableFrom(Tail(s))
    ELSE AvailableFrom(Tail(s))

get_available_providers == AvailableFrom(PROVIDERS)

\* get_provider(name): the ValueError text for an unknown name
UnknownProviderError(name) ==
    <<"Unknown provider: ", Lower(name), ". Available: [...]">>

\* the name argument left out: None
NoName == "<None>"

\* os.getenv("DEFAULT_PROVIDER", "openai") in an environment that leaves it unset
DefaultProvider == "openai"

NoInstance == [name |-> "<none>", id |-> 0]

Memoized == {e.name : e \in provider_instances}

\* variant: an adapter is built on every call
get_provider_NoMemo(name) ==
    LET key == Lower(IF name = NoName THEN DefaultProvider ELSE name)
        built == [name |-> key, id |-> gp_made[key] + 1]
    IN  IF key \notin ProviderKeys
        THEN [raised |-> TRUE, error |-> UnknownProviderError(key), instance |-> NoInstance,
              instances |-> provider_instances, made |-> gp_made]
        ELSE [raised |-> FALSE, error |-> NONE, instance |-> built,
              instances |-> {e \in provider_instances : e.name # key} \cup {built},
              made |-> [gp_made EXCEPT ![key] = @ + 1]]

\* variant: an unknown name is answered with the default adapter
get_provider_DefaultsUnknown(name) ==
    LET given == Lower(IF name = NoName THEN DefaultProvider ELSE name)
        key == IF given \in ProviderKeys THEN given ELSE DefaultProvider
        built == [name |-> key, id |-> gp_made[key] + 1]
    IN  IF key \in Memoized
        THEN [raised |-> FALSE, error |-> NONE,
              instance |-> CHOOSE e \in provider_instances : e.name = key,
              instances |-> provider_instances, made |-> gp_made]
        ELSE [raised |-> FALSE, error |-> NONE, instance |-> built,
              instances |-> provider_instances \cup {built},
              made |-> [gp_made EXCEPT ![key] = @ + 1]]

\* lines 530-548, get_provider(name): whether it raises and with what text,
\* the adapter it returns, and _provider_instances afterwards
get_provider(name) ==
    LET key == Lower(IF name = NoName THEN DefaultProvider ELSE name)
        built == [name |-> key, id |-> gp_made[key] + 1]
    IN  IF key \in Memoized
        THEN [raised |-> FALSE, error |-> NONE,
              instance |-> CHOOSE e \in provider_instances : e.name = key,
              instances |-> provider_instances, made |-> gp_made]
        ELSE IF key \notin ProviderKeys
        THEN [raised |-> TRUE, error |-> UnknownProviderError(key), instance |-> NoInstance,
              instances |-> provider_instances, made |-> gp_made]
        ELSE [raised |-> FALSE, error |-> NONE, instance |-> built,
              instances |-> provider_instances \cup {built},
              made |-> [gp_made EXCEPT ![key] = @ + 1]]

\* a direct call of get_provider, by whichever coroutine runs: the function
\* has no await, so calls of concurrent agents happen one after the other
GetProviderCall ==
    /\ Len(gp_log) < MaxCalls
    /\ \E name \in ProviderInputs \cup {NoName} :
         LET got == get_provider(name)
         IN  /\ provider_instances' = got.instances
             /\ gp_made' = got.made
             /\ gp_log' = Append(gp_log, [name |-> name, raised |-> got.raised,
                                          error |-> got.error, instance |-> got.instance,
                                          before |-> provider_instances,
                                          after |-> got.instances])
    /\ UNCHANGED <<adVars, api_key, ga_result, fbVars, fbFrame>>

\* a direct call of get_available_providers
AvailableCall ==
    /\ ga_result' = get_available_providers
    /\ UNCHANGED <<adVars, api_key, regVars, gp_log, fbVars, fbFrame>>

\* ------------------------------------------------------------------------
\* llm_providers.py : the adapters' chat
\* ------------------------------------------------------------------------
\* the environment variable a hosted adapter reads its key from
EnvKey(name) ==
    CASE name = "openai" -> "OPENAI_API_KEY"
      [] name = "anthropic" -> "ANTHROPIC_API_KEY"
      [] name = "google" -> "GOOGLE_API_KEY"
      [] name = "groq" -> "GROQ_API_KEY"
      [] OTHER -> "<none>"

\* `if not self.api_key`: the check the hosted adapters make, Ollama has none
CredentialMissing(name) == name \in HostedProviders /\ name \notin api_key

\* messages a caller passes to chat
Messages ==
    {[role |-> "system", content |-> <<"S">>], [role |-> "system", content |-> <<>>],
     [role |-> "user", content |-> <<"q">>], [role |-> "assistant", content |-> <<"a">>]}

MessageLists == SeqsUpTo(Messages, MaxMessages)

\* BaseLLMProvider._format_messages: one {"role", "content"} dict per message
format_messages(messages) ==
    [i \in 1..Len(messages) |-> [role |-> messages[i].role, content |-> messages[i].content]]

\* the loop of AnthropicProvider.chat: the messages that are not system messages
RECURSIVE chat_messages(_)
chat_messages(messages) ==
    IF messages = <<>> THEN <<>>
    ELSE IF Head(messages).role = "system" THEN chat_messages(Tail(messages))
    ELSE <<[role |-> Head(messages).role, content |-> Head(messages).content]>>
             \o chat_messages(Tail(messages))

\* the loop of GoogleProvider.chat: user and assistant messages, assistant as "model"
RECURSIVE contents(_)
contents(messages) ==
    IF messages = <<>> THEN <<>>
    ELSE IF Head(messages).role = "user"
         THEN <<[role |-> "user", content |-> Head(messages).content]>>
                  \o contents(Tail(messages))
    ELSE IF Head(messages).role = "assistant"
         THEN <<[role |-> "model", content |-> Head(messages).content]>>
                  \o contents(Tail(messages))
    ELSE contents(Tail(messages))

\* system_msg / system_instruction after the loop: the content of the last
\* system message, None when there is none
system_msg(messages) ==
    LET at == {i \in 1..Len(messages) : messages[i].role = "system"}
    IN  IF at = {} THEN NONE
        ELSE messages[CHOOSE i \in at : \A j \in at : j <= i].content

\* `if system_msg:` the field is set only for a non-empty text
SystemField(messages) ==
    IF system_msg(messages) = NONE \/ system_msg(messages) = <<>> THEN NONE
    ELSE system_msg(messages)

\* the part of the request payload that carries the conversation: the dedicated
\* system field (NONE when the payload has none) and the message array
Payload(name, messages) ==
    CASE name = "anthropic" ->
           [system |-> SystemField(messages), messages |-> chat_messages(messages)]
      [] name = "google" ->
           [system |-> SystemField(messages), messages |-> contents(messages)]
      [] OTHER -> [system |-> NONE, messages |-> format_messages(messages)]

NoPayload == [system |-> NONE, messages |-> <<>>]

\* What the transport answers to client.post: kind "raise" is an exception of
\* the transport; kind "status" a response with a status code and a body. The
\* body's shape is "not_json" (response.json() raises), "array" (JSON, but a
\* list), "no_envelope" (a JSON object without the vendor's fields) or
\* "envelope"; an envelope carries a text, or none (NONE), and the token usage.
Wire(kind, status, shape, content, total) ==
    [kind |-> kind, status |-> status, shape |-> shape, content |-> content, total |-> total]

NoWire == Wire("none", 0, "none", NONE, 0)

\* status codes of the answers that are not 200
ErrorStatuses == {500}

StatusText(status) == IF status = 500 THEN "500" ELSE "200"

\* the answers chat_with_fallback and the agents are run against
ChatWires ==
    {Wire("status", st, "not_json", NONE, 0) : st \in ErrorStatuses}
    \cup {Wire("status", 200, "envelope", c, 2) : c \in ChatContents}

\* the answers one adapter is run against
AllWires ==
    ChatWires
    \cup {Wire("raise", 0, "none", NONE, 0)}
    \cup {Wire("status", 200, sh, NONE, 0) : sh \in {"not_json", "array", "no_envelope"}}
    \cup {Wire("status", 200, "envelope", NONE, 2)}

\* variant: the handler names the transport's exception class only
AdapterCatches_TransportOnly(exc) == exc = "ConnectError"

\* `except Exception as e` around the request and the parsing
AdapterCatches(exc) == TRUE

\* the exception the 200 branch raises on a body, "<none>" when it parses
ParseError(name, w) ==
    CASE w.shape = "not_json" -> "JSONDecodeError"
      [] w.shape = "array" ->
           IF name \in {"openai", "groq"} THEN "TypeError" ELSE "AttributeError"
      [] w.shape = "no_envelope" ->
           IF name \in {"openai", "groq"} THEN "KeyError" ELSE "<none>"
      [] OTHER -> "<none>"

\* content and usage the 200 branch reads from a body that parses
ParsedContent(w) == IF w.shape = "envelope" /\ w.content # NONE THEN w.content ELSE <<>>

ParsedTotal(w) == IF w.shape = "envelope" THEN w.total ELSE 0

\* an adapter call that ends in an exception or in a returned LLMResponse
ChatRaises(exc) == [kind |-> "raise", exc |-> <<exc>>, resp |-> NoResponse]

ChatReturns(resp) ==
    [kind |-> IF resp.success THEN "ok" ELSE "fail", exc |-> <<>>, resp |-> resp]

\* an exception inside the try block: returned as a failure if the handler catches it
ChatExcept(name, exc) ==
    IF AdapterCatches(exc) THEN ChatReturns(LLMResponse(FALSE, <<>>, name, 0, <<exc>>))
    ELSE ChatRaises(exc)

\* the try block of chat, from the answer of client.post on
AfterPost(name, w) ==
    IF w.kind = "raise" THEN ChatExcept(name, "ConnectError")
    ELSE IF w.status = 200
         THEN IF ParseError(name, w) # "<none>" THEN ChatExcept(name, ParseError(name, w))
              ELSE ChatReturns(LLMResponse(TRUE, ParsedContent(w), name, ParsedTotal(w), NONE))
    ELSE ChatReturns(LLMResponse(FALSE, <<>>, name, 0,
                                 <<"HTTP ", StatusText(w.status), ": ", "body">>))

\* the early returns of chat: httpx missing, credential missing
HttpxMissingResponse(name) ==
    LLMResponse(FALSE, <<>>, name, 0,
                IF name = "openai" THEN <<"httpx not installed", ". Run: pip install httpx">>
                ELSE <<"httpx not installed">>)

CredentialMissingResponse(name) ==
    LLMResponse(FALSE, <<>>, name, 0, <<EnvKey(name), " not set">>)

\* provider.chat(messages) as its caller sees it, for the answer w of the transport
AdapterChat(name, w) ==
    IF ~httpx THEN ChatReturns(HttpxMissingResponse(name))
    ELSE IF CredentialMissing(name) THEN ChatReturns(CredentialMissingResponse(name))
    ELSE AfterPost(name, w)

\* The results one adapter chat call can produce: kind "ok" and "fail" are
\* returned LLMResponses, kind "raise" is an exception raised before the
\* adapter's own try block (exc is then the exception text).
ChatOutcomes(name) ==
    {AdapterChat(name, w) : w \in ChatWires}
    \cup (IF CredentialMissing(name) THEN {} ELSE {ChatRaises("TypeError")})

\* the failure text of an outcome that is not a success: response.error, or str(e)
FailureReason(out) == IF out.kind = "raise" THEN out.exc ELSE out.resp.error

\* the frame of the adapter actions
adFrame == <<provVars, fbVars, agentFrame, orchVars>>

\* provider.chat(messages) is called: the early returns, or the payload is
\* built and client.post is awaited
AdapterCall ==
    /\ ad_pc = "idle"
    /\ \E name \in ProviderKeys, messages \in MessageLists :
         /\ ad_name' = name
         /\ ad_messages' = messages
         /\ IF ~httpx
            THEN /\ ad_pc' = "done"
                 /\ ad_resp' = HttpxMissingResponse(name)
                 /\ UNCHANGED <<ad_payload, ad_requests>>
            ELSE IF CredentialMissing(name)
            THEN /\ ad_pc' = "done"
                 /\ ad_resp' = CredentialMissingResponse(name)
                 /\ UNCHANGED <<ad_payload, ad_requests>>
            ELSE /\ ad_pc' = "posting"
                 /\ ad_payload' = Payload(name, messages)
                 /\ ad_requests' = ad_requests + 1
                 /\ UNCHANGED ad_resp
    /\ UNCHANGED <<httpx, extVars, ad_wire, adFrame>>

\* the awaited client.post is over: the rest of the try block
AdapterAnswer ==
    /\ ad_pc = "posting"
    /\ \E w \in AllWires :
         LET out == AfterPost(ad_name, w)
         IN  /\ ad_wire' = w
             /\ IF out.kind = "raise"
                THEN ad_pc' = "raised" /\ UNCHANGED ad_resp
                ELSE ad_pc' = "done" /\ ad_resp' = out.resp
    /\ UNCHANGED <<httpx, extVars, ad_name, ad_messages, ad_payload, ad_requests, adFrame>>

\* the caller takes the response, or sees the exception
AdapterReturn ==
    /\ ad_pc \in {"done", "raised"}
    /\ ad_pc' = "idle"
    /\ ad_name' = "<none>"
    /\ ad_messages' = <<>>
    /\ ad_payload' = NoPayload
    /\ ad_requests' = 0
    /\ ad_wire' = NoWire
    /\ ad_resp' = NoResponse
    /\ UNCHANGED <<httpx, extVars, adFrame>>

AdapterIdle ==
    /\ ad_pc = "idle"
    /\ ad_name = "<none>"
    /\ ad_messages = <<>>
    /\ ad_payload = NoPayload
    /\ ad_requests = 0
    /\ ad_wire = NoWire
    /\ ad_resp = NoResponse

\* ------------------------------------------------------------------------
\* llm_providers.py : chat_with_fallback
\* ------------------------------------------------------------------------
\* one entry of the errors list: f"{provider_name}: {reason}"
ErrorEntry(name, reason) == <<name, ": ">> \o Str(reason)

\* variant: only the last failure is reported
AllFailedResponse_LastOnly(errors) ==
    LLMResponse(FALSE, <<>>, "", 0,
                <<"All providers failed: ">> \o errors[Len(errors)])

\* the response returned when the loop ends without a success
AllFailedResponse(errors) ==
    LLMResponse(FALSE, <<>>, "", 0,
                <<"All providers failed: ">> \o Join(errors, <<"; ">>))

\* variant: the text is passed as the fourth positional argument, the provider
NoProvidersResponse_TextAsProvider ==
    LLMResponse(FALSE, <<>>, "No providers available", 0, NONE)

\* line 583: the response for an empty provider list
NoProvidersResponse ==
    LLMResponse(FALSE, <<>>, "", 0, <<"No providers available">>)

\* lines 579-585: the None default, the empty-list return, errors = []
FallbackEnter(providers, caller) ==
    LET ps == IF providers = NONE THEN get_available_providers ELSE providers
    IN  /\ fb_pc = "idle"
        /\ fb_caller' = caller
        /\ fb_arg' = providers
        /\ fb_providers' = ps
        /\ fb_attempts' = <<>>
        /\ fb_errors' = <<>>
        /\ fb_idx' = 1
        /\ IF ps = <<>>
           THEN fb_pc' = "done" /\ fb_result' = NoProvidersResponse
           ELSE fb_pc' = "loop" /\ fb_result' = NoResponse

\* a direct call of chat_with_fallback, with a list or with None
FallbackCall ==
    /\ \E providers \in ProviderLists \cup {NONE} : FallbackEnter(providers, "direct")
    /\ UNCHANGED <<adVars, provVars, fbFrame>>

\* lines 586-589: get_provider(provider_name), then provider.chat is awaited;
\* get_provider raising is caught by line 593
FallbackTry ==
    /\ fb_pc = "loop"
    /\ fb_idx <= Len(fb_providers)
    /\ LET name == fb_providers[fb_idx]
           got == get_provider(name)
       IN  /\ provider_instances' = got.instances
           /\ gp_made' = got.made
           /\ IF ~got.raised
              THEN /\ fb_pc' = "await"
                   /\ UNCHANGED <<fb_errors, fb_idx, fb_attempts>>
              ELSE /\ fb_errors' = Append(fb_errors, ErrorEntry(name, got.error))
                   /\ fb_attempts' = Append(fb_attempts,
                                            [name |-> name, called |-> FALSE, kind |-> "raise",
                                             exc |-> got.error, resp |-> NoResponse])
                   /\ fb_idx' = fb_idx + 1
                   /\ UNCHANGED fb_pc
    /\ UNCHANGED <<adVars, api_key, gp_log, ga_result, fb_caller, fb_arg, fb_providers, fb_result, fbFrame>>

\* variant: a success is remembered but the loop goes on to the next provider
FallbackChatReturn_NoEarlyReturn ==
    /\ fb_pc = "await"
    /\ LET name == fb_providers[fb_idx]
       IN  \E out \in ChatOutcomes(Lower(name)) :
             /\ fb_attempts' = Append(fb_attempts,
                                      [name |-> name, called |-> TRUE, kind |-> out.kind,
                                       exc |-> out.exc, resp |-> out.resp])
             /\ IF out.kind = "ok"
                THEN /\ fb_result' = out.resp
                     /\ fb_pc' = IF fb_idx = Len(fb_providers) THEN "done" ELSE "loop"
                     /\ fb_idx' = fb_idx + 1
                     /\ UNCHANGED fb_errors
                ELSE /\ fb_errors' = Append(fb_errors, ErrorEntry(name, FailureReason(out)))
                     /\ fb_idx' = fb_idx + 1
                     /\ fb_pc' = "loop"
                     /\ UNCHANGED fb_result
    /\ UNCHANGED <<adVars, provVars, fb_caller, fb_arg, fb_providers, fbFrame>>

\* lines 589-594: the awaited chat returns or raises
FallbackChatReturn ==
    /\ fb_pc = "await"
    /\ LET name == fb_providers[fb_idx]
       IN  \E out \in ChatOutcomes(Lower(name)) :
             /\ fb_attempts' = Append(fb_attempts,
                                      [name |-> name, called |-> TRUE, kind |-> out.kind,
                                       exc |-> out.exc, resp |-> out.resp])
             /\ IF out.kind = "ok"
                THEN /\ fb_result' = out.resp
                     /\ fb_pc' = "done"
                     /\ UNCHANGED <<fb_errors, fb_idx>>
                ELSE /\ fb_errors' = Append(fb_errors, ErrorEntry(name, FailureReason(out)))
                     /\ fb_idx' = fb_idx + 1
                     /\ fb_pc' = "loop"
                     /\ UNCHANGED fb_result
    /\ UNCHANGED <<adVars, provVars, fb_caller, fb_arg, fb_providers, fbFrame>>

\* lines 596-602: the loop is over and no provider succeeded
FallbackExhausted ==
    /\ fb_pc = "loop"
    /\ fb_idx > Len(fb_providers)
    /\ fb_result' = AllFailedResponse(fb_errors)
    /\ fb_pc' = "done"
    /\ UNCHANGED <<adVars, provVars, fb_caller, fb_arg, fb_providers, fb_idx, fb_errors, fb_attempts,
                   fbFrame>>

\* the direct caller takes the response
FallbackReturn ==
    /\ fb_pc = "done"
    /\ fb_caller = "direct"
    /\ fb_pc' = "idle"
    /\ fb_result' = NoResponse
    /\ fb_attempts' = <<>>
    /\ fb_errors' = <<>>
    /\ fb_arg' = NONE
    /\ fb_providers' = <<>>
    /\ fb_idx' = 1
    /\ UNCHANGED <<adVars, provVars, fb_caller, fbFrame>>

\* everything that existed before the calls followed on their own
coreFrame == <<httpx, ad_pc, ad_name, ad_messages, ad_payload, ad_requests, ad_wire, ad_resp,
               adFrame>>

\* ------------------------------------------------------------------------
\* base_agent.py : AgentMemory
\* ------------------------------------------------------------------------
\* len(content) // 4
TokenEstimate(content) == Len(content) \div 4

\* lines 117-120: the max_tokens the memory is constructed with (8000 by
\* default), here a cap that two of the longest contents exceed
max_tokens == 3

\* variant: the trimming loop pops the oldest entry and leaves the estimate alone
RECURSIVE Trim_KeepEstimate(_, _)
Trim_KeepEstimate(entries, estimate) ==
    IF Len(entries) > MaxEntries
    THEN Trim_KeepEstimate(Tail(entries), estimate)
    ELSE [entries |-> entries, estimate |-> estimate]

\* variant: the trimming loop drops the newest entry instead of the oldest
RECURSIVE Trim_PopNewest(_, _)
Trim_PopNewest(entries, estimate) ==
    IF Len(entries) > MaxEntries
    THEN Trim_PopNewest(SubSeq(entries, 1, Len(entries) - 1),
                        estimate - TokenEstimate(entries[Len(entries)].content))
    ELSE [entries |-> entries, estimate |-> estimate]

\* lines 135-137: the trimming loop of add
RECURSIVE Trim(_, _)
Trim(entries, estimate) ==
    IF Len(entries) > MaxEntries
    THEN Trim(Tail(entries), estimate - TokenEstimate(Head(entries).content))
    ELSE [entries |-> entries, estimate |-> estimate]

\* AgentMemory.add(role, content): the memory after the call
AgentMemory_add(entries, estimate, role, content) ==
    Trim(Append(entries, [role |-> role, content |-> content]),
         estimate + TokenEstimate(content))

\* the history of insertions after one more add
RecentAfter(recent, entry) ==
    LET all == Append(recent, entry)
    IN  IF Len(all) > MaxEntries THEN SubSeq(all, Len(all) - MaxEntries + 1, Len(all)) ELSE all

CountAfter(count) == IF count > MaxEntries THEN count ELSE count + 1

\* contents and roles a caller passes to add
MemContents ==
    {<<>>, <<"a", "b", "c">>, <<"a", "b", "c", "d">>,
     <<"a", "b", "c", "d", "e", "f", "g", "h">>}

MemRoles == {"user", "assistant"}

\* a call of memory.add(role, content)
MemAdd ==
    /\ \E role \in MemRoles, content \in MemContents :
         LET m == AgentMemory_add(mem_entries, mem_token_estimate, role, content)
         IN  /\ mem_entries' = m.entries
             /\ mem_token_estimate' = m.estimate
             /\ mem_recent' = RecentAfter(mem_recent, [role |-> role, content |-> content])
             /\ mem_count' = CountAfter(mem_count)
    /\ UNCHANGED <<adVars, orchVars, provVars, fbVars, agentVars, crVars, thVars, seVars>>

\* lines 144-147: a call of memory.clear()
MemClear ==
    /\ mem_entries' = <<>>
    /\ mem_token_estimate' = 0
    /\ mem_recent' = <<>>
    /\ mem_count' = 0
    /\ UNCHANGED <<adVars, orchVars, provVars, fbVars, agentVars, crVars, thVars, seVars>>

\* ------------------------------------------------------------------------
\* base_agent.py : ExecutionMetrics, AgentResult
\* ------------------------------------------------------------------------
\* ExecutionMetrics() as start_metrics builds it
FreshMetrics == [retries |-> 0, tokens_total |-> 0, errors |-> <<>>]

AgentResult(success, data, message, error) ==
    [success |-> success, data |-> data, message |-> message, error |-> error]

NoResult == AgentResult(FALSE, <<>>, <<"<unset>">>, NONE)

create_success_result(data, message) == AgentResult(TRUE, data, message, NONE)

create_error_result(message, error) == AgentResult(FALSE, <<>>, message, error)

\* ------------------------------------------------------------------------
\* base_agent.py : BaseAgent._call_with_retry
\* ------------------------------------------------------------------------
\* names an agent may be constructed with as its provider
AgentProviders == {"openai", "ollama", "bogus"}

\* variant: the backoff doubles without the 0.1 * attempt term
wait_time_NoJitter(attempt) == 10 * (2 ^ attempt)

\* time.sleep argument, in tenths of a second: 2 ** attempt + 0.1 * attempt
wait_time(attempt) == 10 * (2 ^ attempt) + attempt

\* one entry of the history of a _call_with_retry; messages is the list
\* passed to provider.chat or to chat_with_fallback
PrimaryEv(called, out) ==
    [ev |-> "primary", called |-> called, kind |-> out.kind, exc |-> out.exc,
     resp |-> out.resp, wait |-> 0, messages |-> IF called THEN th_messages ELSE <<>>]

WaitEv(t) ==
    [ev |-> "wait", called |-> FALSE, kind |-> "-", exc |-> <<>>, resp |-> NoResponse, wait |-> t,
     messages |-> <<>>]

FallbackEv ==
    [ev |-> "fallback", called |-> FALSE, kind |-> "-", exc |-> <<>>, resp |-> NoResponse,
     wait |-> 0, messages |-> th_messages]

\* `response.error or "Unknown error"`
ErrorOrUnknown(error) == IF error = NONE \/ error = <<>> THEN <<"Unknown error">> ELSE error

\* variant: the loop makes one attempt more than max_retries
MoreAttempts_OneMore(attempt) == attempt <= max_retries

\* variant: the loop gives up one attempt early
MoreAttempts_OneShort(attempt) == attempt < max_retries - 1

\* line 359: the loop condition of `for attempt in range(self.max_retries)`
MoreAttempts(attempt) == attempt < max_retries

\* lines 357-359: entry of _call_with_retry
RetryEnter ==
    /\ cr_pc = "idle"
    /\ cr_pc' = "attempt"
    /\ cr_attempt' = 0
    /\ cr_last_error' = <<>>
    /\ cr_result' = NoResponse
    /\ cr_log' = <<>>
    /\ cr_retries0' = metrics.retries

\* variant: only a raised exception is counted as a retry
FailedAttempt_RaiseOnly(ev, error) ==
    /\ cr_last_error' = error
    /\ metrics' = IF ev.kind = "raise" THEN [metrics EXCEPT !.retries = @ + 1] ELSE metrics
    /\ IF cr_attempt < max_retries - 1
       THEN /\ cr_pc' = "sleep"
            /\ cr_log' = cr_log \o <<ev, WaitEv(wait_time(cr_attempt))>>
            /\ UNCHANGED cr_attempt
       ELSE /\ cr_pc' = "attempt"
            /\ cr_attempt' = cr_attempt + 1
            /\ cr_log' = Append(cr_log, ev)

\* lines 373-384: a failed attempt is counted, then the backoff sleep unless
\* this was the last attempt
FailedAttempt(ev, error) ==
    /\ cr_last_error' = error
    /\ metrics' = [metrics EXCEPT !.retries = @ + 1]
    /\ IF cr_attempt < max_retries - 1
       THEN /\ cr_pc' = "sleep"
            /\ cr_log' = cr_log \o <<ev, WaitEv(wait_time(cr_attempt))>>
            /\ UNCHANGED cr_attempt
       ELSE /\ cr_pc' = "attempt"
            /\ cr_attempt' = cr_attempt + 1
            /\ cr_log' = Append(cr_log, ev)

\* lines 359-368: one loop iteration starts; self.provider loads the adapter
\* lazily (lines 218-223) and get_provider raises for an unknown name, which
\* line 376 catches
RetryAttempt ==
    /\ cr_pc = "attempt"
    /\ MoreAttempts(cr_attempt)
    /\ LET got == get_provider(provider_name)
       IN  IF agent_provider # "<None>"
           THEN /\ cr_pc' = "await"
                /\ UNCHANGED <<agent_provider, regVars, metrics, cr_attempt, cr_last_error,
                               cr_log>>
           ELSE /\ provider_instances' = got.instances
                /\ gp_made' = got.made
                /\ IF ~got.raised
                   THEN /\ cr_pc' = "await"
                        /\ agent_provider' = got.instance.name
                        /\ UNCHANGED <<metrics, cr_attempt, cr_last_error, cr_log>>
                   ELSE /\ FailedAttempt(PrimaryEv(FALSE, [kind |-> "raise",
                                                           exc |-> got.error,
                                                           resp |-> NoResponse]),
                                         got.error)
                        /\ UNCHANGED agent_provider
    /\ UNCHANGED <<adVars, orchVars, api_key, gp_log, ga_result, fbVars, provider_name, max_retries, memVars, cr_result,
                   cr_retries0, thVars, seVars>>

\* lines 361-378: the awaited primary chat returns or raises
RetryChatReturn ==
    /\ cr_pc = "await"
    /\ \E out \in ChatOutcomes(agent_provider) :
         IF out.kind = "ok"
         THEN /\ cr_result' = out.resp
              /\ cr_pc' = "done"
              /\ cr_log' = Append(cr_log, PrimaryEv(TRUE, out))
              /\ UNCHANGED <<metrics, cr_attempt, cr_last_error>>
         ELSE /\ FailedAttempt(PrimaryEv(TRUE, out),
                               IF out.kind = "fail" THEN ErrorOrUnknown(out.resp.error)
                               ELSE out.exc)
              /\ UNCHANGED cr_result
    /\ UNCHANGED <<adVars, orchVars, provVars, fbVars, provider_name, max_retries, agent_provider, memVars,
                   cr_retries0, thVars, seVars>>

\* line 384: the backoff sleep is over, next iteration
RetrySleepDone ==
    /\ cr_pc = "sleep"
    /\ cr_pc' = "attempt"
    /\ cr_attempt' = cr_attempt + 1
    /\ UNCHANGED <<adVars, orchVars, provVars, fbVars, agentVars, memVars, cr_last_error, cr_result, cr_log,
                   cr_retries0, thVars, seVars>>

\* lines 386-393: the loop is over, chat_with_fallback is awaited (no list)
RetryFallback ==
    /\ cr_pc = "attempt"
    /\ ~MoreAttempts(cr_attempt)
    /\ FallbackEnter(NONE, "retry")
    /\ cr_pc' = "fallback"
    /\ cr_log' = Append(cr_log, FallbackEv)
    /\ UNCHANGED <<adVars, orchVars, provVars, agentVars, memVars, cr_attempt, cr_last_error, cr_result,
                   cr_retries0, thVars, seVars>>

\* line 388: chat_with_fallback returned, its response is the result
RetryFallbackReturn ==
    /\ cr_pc = "fallback"
    /\ fb_pc = "done"
    /\ fb_caller = "retry"
    /\ cr_result' = fb_result
    /\ cr_pc' = "done"
    /\ fb_pc' = "idle"
    /\ fb_caller' = "direct"
    /\ fb_arg' = NONE
    /\ fb_providers' = <<>>
    /\ fb_idx' = 1
    /\ fb_errors' = <<>>
    /\ fb_result' = NoResponse
    /\ fb_attempts' = <<>>
    /\ UNCHANGED <<adVars, orchVars, provVars, agentVars, memVars, cr_attempt, cr_last_error, cr_log,
                   cr_retries0, thVars, seVars>>

\* ------------------------------------------------------------------------
\* base_agent.py : BaseAgent.think
\* ------------------------------------------------------------------------
\* prompts an agent's execute passes to think
Prompts == {<<"t", "a", "s", "k">>}

\* system_prompt arguments: omitted, an empty text, an override
SystemPrompts == {NONE, <<>>, <<"O", "v", "e", "r">>}

\* self.system_prompt: line 183 leaves it non-empty, the text given to the
\* constructor or the default prompt
system_prompt == <<"You are ", "TestAgent", ", an AI assistant">>

\* line 291: system_prompt or self.system_prompt
sys_prompt(override) == IF override = NONE \/ override = <<>> THEN system_prompt ELSE override

\* lines 139-142: AgentMemory.get_context(), every entry as a message
get_context(entries) ==
    [i \in 1..Len(entries) |-> [role |-> entries[i].role, content |-> entries[i].content]]

\* variant: the memory is added after the new prompt
ThinkMessages_PromptBeforeMemory(prompt, override, use_memory) ==
    (IF sys_prompt(override) # <<>>
     THEN <<[role |-> "system", content |-> sys_prompt(override)]>> ELSE <<>>)
    \o <<[role |-> "user", content |-> prompt]>>
    \o (IF use_memory /\ mem_entries # <<>> THEN get_context(mem_entries) ELSE <<>>)

\* lines 287-299: the messages think builds
ThinkMessages(prompt, override, use_memory) ==
    (IF sys_prompt(override) # <<>>
     THEN <<[role |-> "system", content |-> sys_prompt(override)]>> ELSE <<>>)
    \o (IF use_memory /\ mem_entries # <<>> THEN get_context(mem_entries) ELSE <<>>)
    \o <<[role |-> "user", content |-> prompt]>>

\* lines 287-307: think builds the messages and awaits _call_with_retry
ThinkEnter(prompt, override, use_memory) ==
    /\ th_pc = "idle"
    /\ th_pc' = "calling"
    /\ th_prompt' = prompt
    /\ th_system' = override
    /\ th_use_memory' = use_memory
    /\ th_messages' = ThinkMessages(prompt, override, use_memory)
    /\ th_value' = <<>>
    /\ RetryEnter

\* variant: the reply is stored before the prompt
Remember_ReplyFirst(prompt, reply) ==
    LET m1 == AgentMemory_add(mem_entries, mem_token_estimate, "assistant", reply)
    IN  AgentMemory_add(m1.entries, m1.estimate, "user", prompt)

\* lines 311-312: memory.add("user", prompt); memory.add("assistant", content)
Remember(prompt, reply) ==
    LET m1 == AgentMemory_add(mem_entries, mem_token_estimate, "user", prompt)
    IN  AgentMemory_add(m1.entries, m1.estimate, "assistant", reply)

\* variant: the failure is raised without being recorded
RecordError_Skipped(errors, error) == errors

\* line 323: self.metrics.errors.append(response.error or "Unknown error")
RecordError(errors, error) == Append(errors, ErrorOrUnknown(error))

\* lines 309-324: _call_with_retry returned
ThinkReturn ==
    /\ th_pc = "calling"
    /\ cr_pc = "done"
    /\ IF cr_result.success
       THEN LET m2 == Remember(th_prompt, cr_result.content)
            IN  /\ mem_entries' = m2.entries
                /\ mem_token_estimate' = m2.estimate
                /\ mem_recent' = RecentAfter(RecentAfter(mem_recent,
                                      [role |-> "user", content |-> th_prompt]),
                                      [role |-> "assistant", content |-> cr_result.content])
                /\ mem_count' = CountAfter(CountAfter(mem_count))
                /\ metrics' = [metrics EXCEPT !.tokens_total = @ + cr_result.total_tokens]
                /\ th_value' = cr_result.content
                /\ th_pc' = "returned"
       ELSE /\ metrics' = [metrics EXCEPT !.errors = RecordError(@, cr_result.error)]
            /\ th_value' = <<"LLM call failed: ">> \o Str(cr_result.error)
            /\ th_pc' = "raised"
            /\ UNCHANGED memVars
    /\ th_system' = NONE
    /\ th_use_memory' = TRUE
    /\ th_messages' = <<>>
    /\ cr_pc' = "idle"
    /\ cr_attempt' = 0
    /\ cr_last_error' = <<>>
    /\ cr_result' = NoResponse
    /\ cr_log' = <<>>
    /\ cr_retries0' = 0
    /\ UNCHANGED <<adVars, orchVars, provVars, fbVars, provider_name, max_retries, agent_provider, th_prompt,
                   seVars>>

\* ------------------------------------------------------------------------
\* base_agent.py : the sampling arguments think hands on
\* ------------------------------------------------------------------------
\* __init__: temperature: float = 0.3 (in tenths), max_tokens: int = 4000
DefaultTemperature == 3

DefaultMaxTokens == 4000

\* an Optional argument: None, or a number
NoOverride == [given |-> FALSE, value |-> 0]

Override(v) == [given |-> TRUE, value |-> v]

\* values a caller may pass as temperature (tenths) and as max_tokens
TemperatureArgs == {NoOverride} \cup {Override(v) : v \in {0, 2, 7, 10}}

MaxTokensArgs == {NoOverride} \cup {Override(v) : v \in {0, 1, 256, 4000}}

\* Python's `arg or default` on an Optional number: None and 0 are falsy
OrElse(arg, default) == IF arg.given /\ arg.value # 0 THEN arg.value ELSE default

NoArgs == [temperature |-> 0, max_tokens |-> 0, json_mode |-> FALSE]

\* lines 302-307: think calls _call_with_retry, which hands temperature,
\* max_tokens and json_mode to provider.chat as it got them (lines 361-367)
ThinkArgsCall ==
    /\ ta_pc = "idle"
    /\ \E t \in TemperatureArgs, m \in MaxTokensArgs, j \in BOOLEAN :
         /\ ta_temperature' = t
         /\ ta_max_tokens' = m
         /\ ta_json_mode' = j
         /\ ta_passed' = [temperature |-> OrElse(t, self_temperature),
                          max_tokens |-> OrElse(m, self_max_tokens),
                          json_mode |-> j]
    /\ ta_pc' = "called"
    /\ UNCHANGED <<self_temperature, self_max_tokens, coreFrame, pjVars, ovVars>>

\* the call is over
ThinkArgsReturn ==
    /\ ta_pc = "called"
    /\ ta_pc' = "idle"
    /\ ta_temperature' = NoOverride
    /\ ta_max_tokens' = NoOverride
    /\ ta_json_mode' = FALSE
    /\ ta_passed' = NoArgs
    /\ UNCHANGED <<self_temperature, self_max_tokens, coreFrame, pjVars, ovVars>>

ArgsCallIdle ==
    /\ ta_pc = "idle"
    /\ ta_temperature = NoOverride
    /\ ta_max_tokens = NoOverride
    /\ ta_json_mode = FALSE
    /\ ta_passed = NoArgs

ArgsIdle ==
    /\ self_temperature = DefaultTemperature
    /\ self_max_tokens = DefaultMaxTokens
    /\ ArgsCallIdle

\* ------------------------------------------------------------------------
\* base_agent.py : BaseAgent.parse_json_response
\* ------------------------------------------------------------------------
\* A completion is a text over the atoms "{", "}", the double quote, ":",
\* the letter "k", the digit "1", the blank " ", and the fixed pieces
\* "<fence>" (three backticks) and "json".
Quote == "\""

Fence == <<"<fence>">>

FenceJson == <<"<fence>", "json">>

\* the least element of a non-empty set of positions
First(S) == CHOOSE x \in S : \A y \in S : x <= y

\* str.strip(): blanks at both ends are removed
strip(text) ==
    LET solid == {i \in 1..Len(text) : text[i] # " "}
    IN  IF solid = {} THEN <<>>
        ELSE SubSeq(text, First(solid), CHOOSE x \in solid : \A y \in solid : y <= x)

\* str.find(sub, start) with 1-based positions; 0 stands for Python's -1
find(text, sub, start) ==
    LET at == {p \in start..Len(text) : OccursAt(text, sub, p)}
    IN  IF at = {} THEN 0 ELSE First(at)

\* lines 403-412: the inside of the first code fence replaces the content when
\* the fence is closed and the span is not empty (`if end > start`)
ExtractFence(content) ==
    LET tag == IF Contains(content, FenceJson) THEN FenceJson
               ELSE IF Contains(content, Fence) THEN Fence
               ELSE <<>>
        start == find(content, tag, 1) + Len(tag)
        end == find(content, Fence, start)
    IN  IF tag = <<>> THEN content
        ELSE IF end > start THEN strip(SubSeq(content, start, end - 1))
        ELSE content

\* sys.getrecursionlimit() as the JSON decoder meets it, scaled down: the
\* number of objects that may be open at once
RecursionLimit == 2

\* the decoder skips blanks between tokens
SkipWs(t, p) ==
    LET solid == {i \in p..Len(t) : t[i] # " "}
    IN  IF solid = {} THEN Len(t) + 1 ELSE First(solid)

\* outcome of decoding one value: "ok" with the position after it, "bad" for
\* a syntax error, "deep" for nesting beyond the recursion limit
Decoded(st, end) == [st |-> st, end |-> end]

\* a string starts at p: it runs to the next double quote
ParseString(t, p) ==
    LET close == {q \in (p + 1)..Len(t) : t[q] = Quote}
    IN  IF close = {} THEN Decoded("bad", p) ELSE Decoded("ok", First(close) + 1)

\* json.loads on the value starting at p, with depth objects already open
RECURSIVE ParseValue(_, _, _)
ParseValue(t, p, depth) ==
    IF p > Len(t) THEN Decoded("bad", p)
    ELSE IF t[p] = "1" THEN Decoded("ok", First({q \in (p + 1)..(Len(t) + 1) :
                                                   q > Len(t) \/ t[q] # "1"}))
    ELSE IF t[p] = Quote THEN ParseString(t, p)
    ELSE IF t[p] # "{" THEN Decoded("bad", p)
    ELSE IF depth >= RecursionLimit THEN Decoded("deep", p)
    ELSE LET p1 == SkipWs(t, p + 1)
         IN  IF p1 > Len(t) THEN Decoded("bad", p1)
             ELSE IF t[p1] = "}" THEN Decoded("ok", p1 + 1)
             ELSE IF t[p1] # Quote THEN Decoded("bad", p1)
             ELSE LET key == ParseString(t, p1)
                      p2 == SkipWs(t, key.end)
                  IN  IF key.st # "ok" THEN key
                      ELSE IF p2 > Len(t) \/ t[p2] # ":" THEN Decoded("bad", p2)
                      ELSE LET v == ParseValue(t, SkipWs(t, p2 + 1), depth + 1)
                               p4 == SkipWs(t, v.end)
                           IN  IF v.st # "ok" THEN v
                               ELSE IF p4 > Len(t) \/ t[p4] # "}" THEN Decoded("bad", p4)
                               ELSE Decoded("ok", p4 + 1)

\* the decoded value, written without the blanks between its tokens
RECURSIVE Canon(_, _)
Canon(t, in_string) ==
    IF t = <<>> THEN <<>>
    ELSE IF Head(t) = Quote THEN <<Quote>> \o Canon(Tail(t), ~in_string)
    ELSE IF Head(t) = " " /\ ~in_string THEN Canon(Tail(t), in_string)
    ELSE <<Head(t)>> \o Canon(Tail(t), in_string)

\* json.loads(text): the value, JSONDecodeError, or RecursionError
json_loads(t) ==
    LET v == ParseValue(t, SkipWs(t, 1), 0)
    IN  IF v.st = "deep"
        THEN [kind |-> "RecursionError", value |-> <<>>,
              msg |-> <<"maximum recursion depth exceeded">>]
        ELSE IF v.st = "bad"
        THEN [kind |-> "JSONDecodeError", value |-> <<>>, msg |-> <<"Expecting value">>]
        ELSE IF SkipWs(t, v.end) <= Len(t)
        THEN [kind |-> "JSONDecodeError", value |-> <<>>, msg |-> <<"Extra data">>]
        ELSE [kind |-> "ok", value |-> Canon(t, FALSE), msg |-> <<>>]

\* lines 423-428: from an opening brace at j - 1 .. the position where the
\* brace count comes back to 0, or 0 when it never does
RECURSIVE ScanClose(_, _, _)
ScanClose(content, j, depth) ==
    IF j > Len(content) THEN 0
    ELSE IF content[j] = "{" THEN ScanClose(content, j + 1, depth + 1)
    ELSE IF content[j] = "}"
    THEN IF depth = 1 THEN j ELSE ScanClose(content, j + 1, depth - 1)
    ELSE ScanClose(content, j + 1, depth)

\* lines 421-433: for each opening brace in turn, the span up to its matching
\* brace is decoded; the bare except skips a span that does not decode
RECURSIVE ScanFrom(_, _)
ScanFrom(content, i) ==
    IF i > Len(content) THEN [found |-> FALSE, value |-> <<>>]
    ELSE IF content[i] # "{" THEN ScanFrom(content, i + 1)
    ELSE LET j == ScanClose(content, i + 1, 1)
             span == IF j = 0 THEN <<>> ELSE SubSeq(content, i, j)
         IN  IF j # 0 /\ json_loads(span).kind = "ok"
             THEN [found |-> TRUE, value |-> json_loads(span).value]
             ELSE ScanFrom(content, i + 1)

\* what a call gives: the decoded value, the fallback dict, or an exception
Parsed(value) ==
    [kind |-> "parsed", value |-> value, raw_content |-> <<>>, parse_error |-> <<>>,
     exc |-> "<none>"]

Fallback(raw, error) ==
    [kind |-> "fallback", value |-> <<>>, raw_content |-> raw, parse_error |-> error,
     exc |-> "<none>"]

ParseRaised(exc) ==
    [kind |-> "raised", value |-> <<>>, raw_content |-> <<>>, parse_error |-> <<>>,
     exc |-> exc]

NoParse == ParseRaised("<unset>")

\* lines 399-434; `except json.JSONDecodeError` lets a RecursionError of
\* json.loads(content) leave the method
parse_json_response(content) ==
    LET c == ExtractFence(strip(content))
        r == json_loads(c)
        s == ScanFrom(c, 1)
    IN  IF r.kind = "ok" THEN Parsed(r.value)
        ELSE IF r.kind # "JSONDecodeError" THEN ParseRaised(r.kind)
        ELSE IF s.found THEN Parsed(s.value)
        ELSE Fallback(c, r.msg)

\* JSON values and objects a completion may hold
NumberValue == <<"1">>

StringValues == {<<Quote, "k", Quote>>, <<Quote, "}", Quote>>, <<Quote, "{", Quote>>,
                 <<Quote, "k", " ", "}", Quote>>}

Obj(v) == <<"{", Quote, "k", Quote, ":">> \o v \o <<"}">>

\* objects nested n deep around a number
RECURSIVE Nested(_)
Nested(n) == IF n = 0 THEN NumberValue ELSE Obj(Nested(n - 1))

Objects ==
    {<<"{", "}">>, <<"{", " ", Quote, "k", Quote, " ", ":", " ", "1", " ", "}">>}
    \cup {Obj(v) : v \in StringValues}
    \cup {Obj(Obj(v)) : v \in StringValues}
    \cup {Nested(n) : n \in 1..(RecursionLimit + 1)}

\* text that is no JSON object
Garbage ==
    {<<>>, <<"k">>, <<"1">>, <<"{">>, <<"}">>, <<"{", "{">>, <<"}", "{">>, <<"{", "k", "}">>,
     <<"{", Quote, "k", Quote, ":", "1">>, <<"{", "{", "}">>, <<"{", "}", "}">>,
     <<Quote, "k", Quote>>, <<Quote, "{">>, <<"{", "}", "{", "}">>,
     <<"{", "k", "}", "{", Quote, "k", Quote, ":", "1", "}">>}

Leads ==
    {<<>>, <<" ">>, <<"k", " ">>, <<"{">>, <<"}">>, Fence, FenceJson, <<"k">> \o FenceJson,
     FenceJson \o <<" ">>, Fence \o <<"k">>}

Trails ==
    {<<>>, <<" ">>, <<" ", "k">>, <<"k">>, <<"}">>, <<"{">>, Fence, Fence \o <<"k">>,
     <<" ">> \o Fence \o <<" ">>, <<"k">> \o FenceJson \o <<"k">> \o Fence}

\* the completions parse_json_response is called with
Completions == {l \o m \o t : l \in Leads, m \in Objects \cup Garbage, t \in Trails}

\* a call of parse_json_response
ParseCall ==
    /\ pj_pc = "idle"
    /\ pj_result' = parse_json_response(pj_content)
    /\ pj_pc' = IF pj_result'.kind = "raised" THEN "raised" ELSE "returned"
    /\ UNCHANGED <<pj_content, coreFrame, argVars, ovVars>>

\* the caller has the value or the exception
ParseDone ==
    /\ pj_pc \in {"returned", "raised"}
    /\ pj_pc' = "idle"
    /\ pj_result' = NoParse
    /\ UNCHANGED <<pj_content, coreFrame, argVars, ovVars>>

ParseIdle ==
    /\ pj_pc = "idle"
    /\ pj_content = <<>>
    /\ pj_result = NoParse

\* ------------------------------------------------------------------------
\* base_agent.py : safe_execute calls that overlap on one agent instance
\* ------------------------------------------------------------------------
\* The coroutines of one event loop interleave at their awaits only: each
\* action below is the code one call runs between two awaits.  The agent is
\* the one instance AgentRegistry.get memoizes (orchestrator.py 67-73), so
\* self.metrics and self.memory are shared by the calls.
Calls == 1..MaxOverlap

\* ExecutionMetrics(start_time=time.time()): no end_time yet
NewMetrics == [retries |-> 0, tokens_total |-> 0, errors |-> <<>>, end_time |-> FALSE]

\* the events of one call, counted apart from the shared record
NoEvents == [retries |-> 0, tokens_total |-> 0, errors |-> <<>>]

\* the AgentResult of a call: metrics is a reference to an ExecutionMetrics
\* object, given as its position in ov_heap (0: no result yet)
OvResult(success, path, ref) == [success |-> success, path |-> path, metrics |-> ref]

NoOvResult == OvResult(FALSE, "<none>", 0)

\* the prompt and the reply of the k-th think of call c, named by their origin
PromptOf(c, k) == <<c, k>>

ReplyOf(c, k) == <<c, k, 0>>

\* response.usage["total_tokens"] of a reply
ReplyTokens == 1

\* the error text of a failed response
FailedText == <<"All providers failed">>

\* AgentMemory.add on the shared memory, built with max_entries = MemoryCap
RECURSIVE TrimTo(_, _)
TrimTo(entries, cap) == IF Len(entries) > cap THEN TrimTo(Tail(entries), cap) ELSE entries

\* variant: the new entry is put in front of the older ones
SharedAdd_Front(entries, role, content) ==
    SubSeq(<<[role |-> role, content |-> content]>> \o entries, 1,
           IF Len(entries) + 1 > MemoryCap THEN MemoryCap ELSE Len(entries) + 1)

SharedAdd(entries, role, content) ==
    TrimTo(Append(entries, [role |-> role, content |-> content]), MemoryCap)

\* everything the overlapping calls leave alone
ovFrame == <<coreFrame, argVars, pjVars>>

\* a call is between its start and its return
Active(c) == ov_pc[c] \in {"executing", "awaiting", "fallback"}

\* end_metrics(): the end time is set on whatever self.metrics is now
Ended(heap, ref) == [heap EXCEPT ![ref].end_time = TRUE]

\* lines 518-524: start_metrics() replaces self.metrics, then execute runs up
\* to its first await
OvStart(c) ==
    /\ ov_pc[c] = "idle"
    /\ ov_pc' = [ov_pc EXCEPT ![c] = "executing"]
    /\ ov_heap' = Append(ov_heap, NewMetrics)
    /\ ov_self' = Len(ov_heap) + 1
    /\ ov_overlapped' = [d \in Calls |-> IF d = c THEN \E e \in Calls : Active(e)
                                        ELSE ov_overlapped[d] \/ Active(d)]
    /\ UNCHANGED <<ovFrame, ov_attempt, ov_thinks, ov_own, ov_result, ov_memory>>

\* lines 287-307 and 357-367: execute calls think, which awaits the first
\* provider.chat of _call_with_retry, or chat_with_fallback when max_retries
\* is 0
OvThink(c) ==
    /\ ov_pc[c] = "executing"
    /\ ov_thinks[c] < MaxThinks
    /\ ov_thinks' = [ov_thinks EXCEPT ![c] = @ + 1]
    /\ ov_attempt' = [ov_attempt EXCEPT ![c] = 0]
    /\ ov_pc' = [ov_pc EXCEPT ![c] = IF MoreAttempts(0) THEN "awaiting" ELSE "fallback"]
    /\ UNCHANGED <<ovFrame, ov_heap, ov_self, ov_own, ov_result, ov_overlapped,
                   ov_memory>>

\* lines 369-384: the awaited chat failed: self.metrics.retries += 1, then
\* the sleep and the next chat are awaited, or chat_with_fallback is
OvAttemptFailed(c) ==
    /\ ov_pc[c] = "awaiting"
    /\ ov_heap' = [ov_heap EXCEPT ![ov_self].retries = @ + 1]
    /\ ov_own' = [ov_own EXCEPT ![c].retries = @ + 1]
    /\ ov_attempt' = [ov_attempt EXCEPT ![c] = @ + 1]
    /\ ov_pc' = [ov_pc EXCEPT ![c] = IF MoreAttempts(ov_attempt[c] + 1) THEN "awaiting"
                                      ELSE "fallback"]
    /\ UNCHANGED <<ovFrame, ov_self, ov_thinks, ov_result, ov_overlapped, ov_memory>>

\* lines 308-320: the awaited chat (or the fallback) succeeded: think stores
\* the prompt and the reply, adds the tokens to self.metrics and returns to
\* execute; no await lies in between
ThinkSucceeded(c) ==
    /\ ov_pc[c] \in {"awaiting", "fallback"}
    /\ ov_memory' = SharedAdd(SharedAdd(ov_memory, "user", PromptOf(c, ov_thinks[c])),
                              "assistant", ReplyOf(c, ov_thinks[c]))
    /\ ov_heap' = [ov_heap EXCEPT ![ov_self].tokens_total = @ + ReplyTokens]
    /\ ov_own' = [ov_own EXCEPT ![c].tokens_total = @ + ReplyTokens]
    /\ ov_pc' = [ov_pc EXCEPT ![c] = "executing"]
    /\ UNCHANGED <<ovFrame, ov_self, ov_attempt, ov_thinks, ov_result, ov_overlapped>>

\* lines 321-324 and 527-533: chat_with_fallback failed: think appends the
\* error to self.metrics.errors and raises; safe_execute ends the metrics and
\* returns create_error_result, which refers to self.metrics
ThinkFailed(c) ==
    /\ ov_pc[c] = "fallback"
    /\ ov_heap' = Ended([ov_heap EXCEPT ![ov_self].errors = Append(@, FailedText)], ov_self)
    /\ ov_own' = [ov_own EXCEPT ![c].errors = Append(@, FailedText)]
    /\ ov_result' = [ov_result EXCEPT ![c] = OvResult(FALSE, "except", ov_self)]
    /\ ov_pc' = [ov_pc EXCEPT ![c] = "done"]
    /\ UNCHANGED <<ovFrame, ov_self, ov_attempt, ov_thinks, ov_overlapped, ov_memory>>

\* lines 464-489 and 524-526: execute returns a result it created with
\* metrics=self.metrics; safe_execute ends the metrics and returns it
OvReturn(c) ==
    /\ ov_pc[c] = "executing"
    /\ \E success \in BOOLEAN :
         ov_result' = [ov_result EXCEPT ![c] = OvResult(success, "normal", ov_self)]
    /\ ov_heap' = Ended(ov_heap, ov_self)
    /\ ov_pc' = [ov_pc EXCEPT ![c] = "done"]
    /\ UNCHANGED <<ovFrame, ov_self, ov_attempt, ov_thinks, ov_own, ov_overlapped, ov_memory>>

\* lines 527-533: execute raises an exception of its own
OvRaise(c) ==
    /\ ov_pc[c] = "executing"
    /\ ov_result' = [ov_result EXCEPT ![c] = OvResult(FALSE, "except", ov_self)]
    /\ ov_heap' = Ended(ov_heap, ov_self)
    /\ ov_pc' = [ov_pc EXCEPT ![c] = "done"]
    /\ UNCHANGED <<ovFrame, ov_self, ov_attempt, ov_thinks, ov_own, ov_overlapped, ov_memory>>

\* line 195: __init__ builds the first ExecutionMetrics; no call has started
OverlapIdle ==
    /\ ov_pc = [c \in Calls |-> "idle"]
    /\ ov_attempt = [c \in Calls |-> 0]
    /\ ov_thinks = [c \in Calls |-> 0]
    /\ ov_own = [c \in Calls |-> NoEvents]
    /\ ov_result = [c \in Calls |-> NoOvResult]
    /\ ov_overlapped = [c \in Calls |-> FALSE]
    /\ ov_heap = <<NewMetrics>>
    /\ ov_self = 1
    /\ ov_memory = <<>>

\* ------------------------------------------------------------------------
\* base_agent.py : BaseAgent.safe_execute around the agent's own execute
\* ------------------------------------------------------------------------
\* self.name of the agent
AgentName == "Agent"

\* exceptions the agent-specific execute may raise: [type, str(e)]
ExecuteExceptions ==
    {[type |-> "ValueError", msg |-> <<"bad input">>],
     [type |-> "KeyError", msg |-> <<"'task'">>]}

NoException == [type |-> "<none>", msg |-> <<>>]

\* results the agent-specific execute may return
ExecuteResults ==
    {create_success_result(<<"files">>, <<"Done">>),
     create_error_result(<<"Generation failed">>, <<"no code">>),
     AgentResult(FALSE, <<>>, <<"failed">>, NONE)}

\* variant: the handler names one exception class only
Caught_RuntimeErrorOnly(exc) == exc.type = "RuntimeError"

\* `except Exception`: the classes the handler of safe_execute catches
Caught(exc) == exc.type \in {"ValueError", "KeyError", "RuntimeError"}

\* lines 527-533 (legacy 139-143): the except branch of safe_execute
ExecuteRaised(exc) ==
    /\ se_raised' = exc
    /\ IF Caught(exc)
       THEN /\ se_result' = create_error_result(<<AgentName, " execution failed">>, exc.msg)
            /\ se_pc' = "done"
       ELSE /\ se_pc' = "escaped"
            /\ UNCHANGED se_result

\* core lines 518-524: start_metrics(), then execute is awaited;
\* legacy lines 122-132: check_memory_limits(), then execute is awaited
SafeExecuteCall ==
    /\ se_pc = "idle"
    /\ th_pc = "idle"
    /\ \E impl \in {"core", "legacy"}, within_limits \in BOOLEAN :
         /\ se_impl' = impl
         /\ impl = "core" => within_limits
         /\ metrics' = IF impl = "core" THEN FreshMetrics ELSE metrics
         /\ IF within_limits
            THEN se_pc' = "executing" /\ se_result' = NoResult
            ELSE /\ se_pc' = "done"
                 /\ se_result' = create_error_result(<<"Memory limit exceeded">>,
                                                     <<"Agent memory usage too high">>)
    /\ se_thinks' = 0
    /\ se_raised' = NoException
    /\ UNCHANGED <<adVars, orchVars, provVars, fbVars, provider_name, max_retries, agent_provider, memVars,
                   crVars, thVars>>

\* the running execute awaits self.think(prompt)
ExecThink ==
    /\ se_pc = "executing"
    /\ se_impl = "core"
    /\ se_thinks < MaxThinks
    /\ \E prompt \in Prompts, override \in SystemPrompts, use_memory \in BOOLEAN :
         ThinkEnter(prompt, override, use_memory)
    /\ se_thinks' = se_thinks + 1
    /\ UNCHANGED <<adVars, orchVars, provVars, fbVars, agentVars, memVars, se_pc, se_impl, se_raised, se_result>>

\* think returned its text to execute, which goes on
ExecThinkReturned ==
    /\ se_pc = "executing"
    /\ th_pc = "returned"
    /\ th_pc' = "idle"
    /\ th_value' = <<>>
    /\ UNCHANGED <<adVars, orchVars, provVars, fbVars, agentVars, memVars, crVars, thArgs, seVars>>

\* think raised RuntimeError inside execute: execute lets it propagate to
\* safe_execute, or catches it itself and returns an error result
ExecThinkRaised ==
    /\ se_pc = "executing"
    /\ th_pc = "raised"
    /\ th_pc' = "idle"
    /\ th_value' = <<>>
    /\ \E propagates \in BOOLEAN :
         IF propagates
         THEN ExecuteRaised([type |-> "RuntimeError", msg |-> th_value])
         ELSE /\ se_result' = create_error_result(<<"Generation failed">>, th_value)
              /\ se_pc' = "done"
              /\ UNCHANGED se_raised
    /\ UNCHANGED <<adVars, orchVars, provVars, fbVars, agentVars, memVars, crVars, thArgs, se_impl,
                   se_thinks>>

\* core lines 524-526 (legacy 132-137): execute returns its AgentResult
ExecReturn ==
    /\ se_pc = "executing"
    /\ th_pc = "idle"
    /\ \E r \in ExecuteResults : se_result' = r
    /\ se_pc' = "done"
    /\ UNCHANGED <<adVars, orchVars, provVars, fbVars, agentVars, memVars, crVars, thVars, se_impl, se_thinks,
                   se_raised>>

\* execute raises an exception of its own
ExecRaise ==
    /\ se_pc = "executing"
    /\ th_pc = "idle"
    /\ \E exc \in ExecuteExceptions : ExecuteRaised(exc)
    /\ UNCHANGED <<adVars, orchVars, provVars, fbVars, agentVars, memVars, crVars, thVars, se_impl, se_thinks>>

\* the caller of safe_execute takes the AgentResult
SafeExecuteReturn ==
    /\ se_pc = "done"
    /\ se_pc' = "idle"
    /\ se_result' = NoResult
    /\ se_raised' = NoException
    /\ se_thinks' = 0
    /\ UNCHANGED <<adVars, orchVars, provVars, fbVars, agentVars, memVars, crVars, thVars, se_impl>>

\* ------------------------------------------------------------------------
\* orchestrator.py : AgentRegistry
\* ------------------------------------------------------------------------
\* AgentBase.capabilities of the agent classes the model registers
Capabilities(name) ==
    CASE name = "frontend" -> {"frontend_development", "code_generation"}
      [] name = "backend" -> {"backend_development", "api_design", "database_design",
                              "code_generation"}
      [] name = "docs" -> {"documentation", "code_generation"}
      [] name = "qa" -> {"testing", "planning"}
      [] OTHER -> {}

\* registries an orchestrator is set up with, in registration order
Registries == {<<>>, <<"backend">>, <<"frontend", "backend", "docs", "qa">>}

\* agent classes whose constructor raises
CtorFailures == {{}, {"backend"}}

\* names a caller may put in an explicit agent list
AgentInputs == {"frontend", "backend", "ghost"}

AgentLists == SeqsUpTo(AgentInputs, MaxAgents)

Range(seq) == {seq[i] : i \in 1..Len(seq)}

\* AgentRegistry.get(name), lines 67-73: "ok", or the text of the exception
RegistryGet(name) ==
    IF name \in reg_instances THEN "ok"
    ELSE IF name \notin Range(reg_agents) THEN "unknown"
    ELSE IF name \in reg_ctor_raises THEN "ctor"
    ELSE "ok"

RegistryError(name, how) ==
    IF how = "unknown" THEN <<"Unknown agent: ", name>> ELSE <<"constructor failed">>

\* ------------------------------------------------------------------------
\* orchestrator.py : Orchestrator._auto_select_agents
\* ------------------------------------------------------------------------
\* lines 252-260, in dict order
capability_keywords ==
    <<[capability |-> "code_generation",
       keywords |-> <<<<"c", "o", "d", "e">>,
                     <<"f", "u", "n", "c", "t", "i", "o", "n">>,
                     <<"c", "l", "a", "s", "s">>,
                     <<"i", "m", "p", "l", "e", "m", "e", "n", "t">>,
                     <<"c", "r", "e", "a", "t", "e">>,
                     <<"b", "u", "i", "l", "d">>>>],
      [capability |-> "frontend_development",
       keywords |-> <<<<"f", "r", "o", "n", "t", "e", "n", "d">>,
                     <<"u", "i">>,
                     <<"r", "e", "a", "c", "t">>,
                     <<"v", "u", "e">>,
                     <<"h", "t", "m", "l">>,
                     <<"c", "s", "s">>,
                     <<"c", "o", "m", "p", "o", "n", "e", "n", "t">>>>],
      [capability |-> "backend_development",
       keywords |-> <<<<"b", "a", "c", "k", "e", "n", "d">>,
                     <<"a", "p", "i">>,
                     <<"s", "e", "r", "v", "e", "r">>,
                     <<"e", "n", "d", "p", "o", "i", "n", "t">>,
                     <<"d", "a", "t", "a", "b", "a", "s", "e">>>>],
      [capability |-> "testing",
       keywords |-> <<<<"t", "e", "s", "t">>,
                     <<"t", "e", "s", "t", "i", "n", "g">>,
                     <<"u", "n", "i", "t", " ", "t", "e", "s", "t">>,
                     <<"i", "n", "t", "e", "g", "r", "a", "t", "i", "o", "n">>>>],
      [capability |-> "security_analysis",
       keywords |-> <<<<"s", "e", "c", "u", "r", "i", "t", "y">>,
                     <<"v", "u", "l", "n", "e", "r", "a", "b", "i", "l", "i", "t", "y">>,
                     <<"a", "u", "t", "h">>,
                     <<"p", "e", "r", "m", "i", "s", "s", "i", "o", "n">>>>],
      [capability |-> "documentation",
       keywords |-> <<<<"d", "o", "c", "s">>,
                     <<"d", "o", "c", "u", "m", "e", "n", "t", "a", "t", "i", "o", "n">>,
                     <<"r", "e", "a", "d", "m", "e">>,
                     <<"c", "o", "m", "m", "e", "n", "t">>>>],
      [capability |-> "architecture",
       keywords |-> <<<<"a", "r", "c", "h", "i", "t", "e", "c", "t", "u", "r", "e">>,
                     <<"d", "e", "s", "i", "g", "n">>,
                     <<"s", "t", "r", "u", "c", "t", "u", "r", "e">>,
                     <<"p", "l", "a", "n">>>>]>>

\* task strings a caller passes to run
Tasks ==
    {<<"B", "u", "i", "l", "d", " ", "a", " ", "R", "E", "S", "T", " ", "A", "P", "I", " ", "f", "o", "r", " ", "u", "s", "e", "r", " ", "l", "o", "g", "i", "n">>,
     <<"W", "r", "i", "t", "e", " ", "d", "o", "c", "s">>,
     <<"h", "e", "l", "l", "o">>}

UpperCase == <<"A", "B", "C", "D", "E", "F", "G", "H", "I", "J", "K", "L", "M", "N", "O", "P", "Q", "R", "S", "T", "U", "V", "W", "X", "Y", "Z">>

LowerCase == <<"a", "b", "c", "d", "e", "f", "g", "h", "i", "j", "k", "l", "m", "n", "o", "p", "q", "r", "s", "t", "u", "v", "w", "x", "y", "z">>

\* str.lower() on a text of single characters
LowerChar(c) ==
    IF \E i \in 1..Len(UpperCase) : UpperCase[i] = c
    THEN LowerCase[CHOOSE i \in 1..Len(UpperCase) : UpperCase[i] = c]
    ELSE c

TextLower(text) == [i \in 1..Len(text) |-> LowerChar(text[i])]

\* line 263: any(kw in task_lower for kw in keywords)
Matches(task_lower, keywords) ==
    \E k \in 1..Len(keywords) : Contains(task_lower, keywords[k])

\* lines 75-82, without the construction: registered names with the capability
RECURSIVE WithCapability(_, _)
WithCapability(names, capability) ==
    IF names = <<>> THEN <<>>
    ELSE IF capability \in Capabilities(Head(names))
         THEN <<Head(names)>> \o WithCapability(Tail(names), capability)
         ELSE WithCapability(Tail(names), capability)

\* lines 262-265: selected, over the capability table from position k on
RECURSIVE SelectFrom(_, _)
SelectFrom(task_lower, k) ==
    IF k > Len(capability_keywords) THEN <<>>
    ELSE (IF Matches(task_lower, capability_keywords[k].keywords)
          THEN WithCapability(reg_agents, capability_keywords[k].capability)
          ELSE <<>>) \o SelectFrom(task_lower, k + 1)

\* variant: duplicates are kept
Unique_KeepAll(seq, seen) == seq

\* lines 267-273: remove duplicates while preserving order
RECURSIVE Unique(_, _)
Unique(seq, seen) ==
    IF seq = <<>> THEN <<>>
    ELSE IF Head(seq) \in seen THEN Unique(Tail(seq), seen)
         ELSE <<Head(seq)>> \o Unique(Tail(seq), seen \cup {Head(seq)})

\* list(...)[:3]
Prefix3(seq) == SubSeq(seq, 1, IF Len(seq) < 3 THEN Len(seq) ELSE 3)

\* line 275: the value _auto_select_agents returns when no constructor raises
auto_select_agents(task) ==
    LET unique == Unique(SelectFrom(TextLower(task), 1), {})
    IN  IF unique # <<>> THEN unique ELSE Prefix3(reg_agents)

\* get_by_capability is called at all: some capability matches the task
AnyCapabilityMatches(task) ==
    \E k \in 1..Len(capability_keywords) :
        Matches(TextLower(task), capability_keywords[k].keywords)

\* lines 78-79: get_by_capability calls self.get(name) for every registered
\* name in order; the position of the first whose constructor raises, or 0
FirstCtorFailure ==
    LET bad == {i \in 1..Len(reg_agents) : RegistryGet(reg_agents[i]) = "ctor"}
    IN  IF bad = {} THEN 0 ELSE CHOOSE i \in bad : \A j \in bad : i <= j

\* ------------------------------------------------------------------------
\* orchestrator.py : Orchestrator.run
\* ------------------------------------------------------------------------
\* a dict is the set of its items [key, value]
EmptyDict == {}

\* d[key] = value
DictPut(d, key, value) == {e \in d : e.key # key} \cup {[key |-> key, value |-> value]}

DictKeys(d) == {e.key : e \in d}

\* d.get(key, default)
DictGet(d, key, default) ==
    IF key \in DictKeys(d) THEN (CHOOSE e \in d : e.key = key).value ELSE default

\* initial_context arguments: None, or a dict the caller built
InitialContexts ==
    {[none |-> TRUE, dict |-> EmptyDict],
     [none |-> FALSE, dict |-> {[key |-> "user", value |-> <<"u", "1">>]}]}

NoInitialContext == [none |-> TRUE, given |-> EmptyDict, dict |-> EmptyDict]

\* line 135, self.context = initial_context or {}: self.context is the
\* caller's own dict object unless that is None or empty
Aliased(ic) == ~ic.none /\ ic.dict # EmptyDict

\* the caller's dict after self.context became ctx
CallerSees(ctx) ==
    IF Aliased(initial_context) THEN [initial_context EXCEPT !.dict = ctx]
    ELSE initial_context

\* line 229, "context": self.context: the dict the agent of list position i
\* of a batch holds is the orchestrator's own
ReceivedContext(i) == context

\* what an agent of a batch writes into the dict it was given
ScratchKey == "scratch"

\* f"{agent_name}_output"
OutputKey(name) == name \o "_output"

\* variant: only the results of successful agents are kept
ResultsPut_SuccessOnly(res, name, result) ==
    IF ~result.success THEN res
    ELSE IF \E i \in 1..Len(res) : res[i].name = name
    THEN [i \in 1..Len(res) |-> IF res[i].name = name
                                THEN [name |-> name, result |-> result] ELSE res[i]]
    ELSE Append(res, [name |-> name, result |-> result])

\* results[name] = result on a dict that keeps insertion order
ResultsPut(res, name, result) ==
    IF \E i \in 1..Len(res) : res[i].name = name
    THEN [i \in 1..Len(res) |-> IF res[i].name = name
                                THEN [name |-> name, result |-> result] ELSE res[i]]
    ELSE Append(res, [name |-> name, result |-> result])

ResultKeys(res) == {res[i].name : i \in 1..Len(res)}

ResultOf(res, name) == res[CHOOSE i \in 1..Len(res) : res[i].name = name].result

\* what one awaited agent.safe_execute(input_data) can return: the result,
\* and whether it stands for an exception raised by the agent's execute
SafeExecuteOutcomes(name) ==
    {[result |-> create_success_result(<<"files">>, <<"Done">>), exc |-> FALSE],
     [result |-> create_error_result(<<"Generation failed">>, <<"no code">>), exc |-> FALSE],
     [result |-> create_error_result(<<name, " execution failed">>, <<"bad input">>),
      exc |-> TRUE]}

\* lines 213-218 and 234-239: the result built by the except branches
ExceptionResult(error) == AgentResult(FALSE, <<>>, <<"Agent execution failed">>, error)

\* lines 156-158: the errors list, in the key order of results
RECURSIVE FailureList(_)
FailureList(res) ==
    IF res = <<>> THEN <<>>
    ELSE (IF ~Head(res).result.success
          THEN <<(<<Head(res).name, ": ">> \o Str(Head(res).result.error))>>
          ELSE <<>>) \o FailureList(Tail(res))

\* variant: success is taken from the last result only
PipelineResult_LastOnly(res) ==
    [success |-> (res = <<>> \/ res[Len(res)].result.success), results |-> res,
     errors |-> FailureList(res)]

\* lines 155-174: the PipelineResult built from results
PipelineResult(res) ==
    [success |-> Len(FailureList(res)) = 0, results |-> res, errors |-> FailureList(res)]

NoPipelineResult == [success |-> FALSE, results |-> <<>>, errors |-> <<>>]

NoTask == [st |-> "pending", result |-> NoResult, exc |-> FALSE]

\* variant: the agent is given no result of the agents before it
InputData_NoPreviousResults(ctx, res) ==
    [task |-> DictGet(ctx, "task", <<>>), context |-> ctx, previous_results |-> <<>>]

\* lines 186-191: the input_data built for one agent of the sequence
InputData(ctx, res) ==
    [task |-> DictGet(ctx, "task", <<>>), context |-> ctx, previous_results |-> res]

NoInput == [task |-> <<>>, context |-> EmptyDict, previous_results |-> <<>>]

\* variant: the data of a failed result is stored as well
StoreOutput_Always(ctx, name, result) == DictPut(ctx, OutputKey(name), result.data)

\* lines 198-202: the context after one agent of the sequence returned
StoreOutput(ctx, name, result) ==
    IF result.success THEN DictPut(ctx, OutputKey(name), result.data) ELSE ctx

\* lines 134-153: run seeds the context, selects the agents when none are
\* given, and enters _run_sequential or _run_parallel; an exception raised by
\* _auto_select_agents is outside the try block of line 149
Run(task, agents, mode, ic) ==
    /\ run_pc = "idle"
    /\ LET selecting == agents = NONE
           constructing == selecting /\ AnyCapabilityMatches(task)
           bad == IF constructing THEN FirstCtorFailure ELSE 0
           chosen == IF selecting THEN auto_select_agents(task) ELSE agents
       IN  /\ run_task' = task
           /\ run_arg' = agents
           /\ run_mode' = mode
           /\ context' = DictPut(IF Aliased(ic) THEN ic.dict ELSE EmptyDict, "task", task)
           /\ run_seed' = context'
           /\ initial_context' = [none |-> ic.none, given |-> ic.dict,
                                  dict |-> IF Aliased(ic) THEN context' ELSE ic.dict]
           /\ reg_instances' =
                IF ~constructing THEN reg_instances
                ELSE IF bad = 0 THEN reg_instances \cup Range(reg_agents)
                ELSE reg_instances \cup {reg_agents[i] : i \in 1..(bad - 1)}
           /\ IF bad # 0
              THEN /\ run_pc' = "raised"
                   /\ run_agents' = <<>>
                   /\ par_tasks' = <<>>
              ELSE /\ run_pc' = IF mode = "parallel" THEN "par" ELSE "seq"
                   /\ run_agents' = chosen
                   /\ par_tasks' = IF mode = "parallel"
                                   THEN [i \in 1..Len(chosen) |-> NoTask] ELSE <<>>
    /\ run_idx' = 1
    /\ results' = <<>>
    /\ par_order' = <<>>
    /\ inv_log' = <<>>
    /\ seq_input' = NoInput
    /\ par_writes' = <<>>
    /\ run_result' = NoPipelineResult
    /\ UNCHANGED <<adVars, reg_agents, reg_ctor_raises, provVars, fbVars, agentFrame>>

\* a caller calls run with None or with a dict it has just built
RunCall ==
    \E task \in Tasks, agents \in AgentLists \cup {NONE},
       mode \in {"sequential", "parallel"}, ic \in InitialContexts :
        Run(task, agents, mode, ic)

\* the batches of the caller that keeps its dict
BatchLists == SeqsUpTo({"frontend", "backend"}, MaxBatch)

BatchTask == <<"h", "e", "l", "l", "o">>

\* that caller calls run with None or with a dict it has just built
RunCallBatch ==
    \E agents \in BatchLists, mode \in {"sequential", "parallel"}, ic \in InitialContexts :
        Run(BatchTask, agents, mode, ic)

\* and calls run again with the dict it passed to the run before
RunCallAgain ==
    /\ ~initial_context.none
    /\ \E agents \in BatchLists, mode \in {"sequential", "parallel"} :
         Run(BatchTask, agents, mode, [none |-> FALSE, dict |-> initial_context.dict])

\* lines 180-194 and 211-218: the next agent of the list is looked up and its
\* safe_execute awaited; an exception of registry.get becomes its result
SeqStart ==
    /\ run_pc = "seq"
    /\ run_idx <= Len(run_agents)
    /\ LET name == run_agents[run_idx]
           how == RegistryGet(name)
       IN  IF how = "ok"
           THEN /\ reg_instances' = reg_instances \cup {name}
                /\ seq_input' = InputData(context, results)
                /\ run_pc' = "seq_await"
                /\ UNCHANGED <<results, inv_log, run_idx>>
           ELSE /\ results' = ResultsPut(results, name,
                                         ExceptionResult(RegistryError(name, how)))
                /\ inv_log' = Append(inv_log,
                                     [name |-> name, exc |-> TRUE, ran |-> FALSE,
                                      success |-> FALSE, input |-> NoInput,
                                      result |-> ExceptionResult(RegistryError(name, how))])
                /\ run_idx' = run_idx + 1
                /\ UNCHANGED <<reg_instances, run_pc, seq_input>>
    /\ UNCHANGED <<adVars, callVars, reg_agents, reg_ctor_raises, context, run_task, run_arg, run_mode,
                   run_agents, par_tasks, par_order, run_result, provVars, fbVars, agentFrame>>

\* lines 194-209: safe_execute returned; the result is stored and, when it is
\* a success, its data is written to the context
SeqAgentDone ==
    /\ run_pc = "seq_await"
    /\ LET name == run_agents[run_idx]
       IN  \E out \in SafeExecuteOutcomes(name) :
             /\ results' = ResultsPut(results, name, out.result)
             /\ context' = StoreOutput(context, name, out.result)
             /\ inv_log' = Append(inv_log,
                                  [name |-> name, exc |-> out.exc, ran |-> TRUE,
                                   success |-> out.result.success, input |-> seq_input,
                                   result |-> out.result])
    /\ seq_input' = NoInput
    /\ initial_context' = CallerSees(context')
    /\ run_idx' = run_idx + 1
    /\ run_pc' = "seq"
    /\ UNCHANGED <<adVars, run_seed, par_writes, reg_agents, reg_ctor_raises, reg_instances, run_task, run_arg, run_mode,
                   run_agents, par_tasks, par_order, run_result, provVars, fbVars, agentFrame>>

\* lines 220 and 155-174: the loop is over, run builds the PipelineResult
SeqFinish ==
    /\ run_pc = "seq"
    /\ run_idx > Len(run_agents)
    /\ run_result' = PipelineResult(results)
    /\ run_pc' = "done"
    /\ UNCHANGED <<adVars, callVars, reg_agents, reg_ctor_raises, reg_instances, context, run_task, run_arg,
                   run_mode, run_agents, run_idx, results, par_tasks, par_order, inv_log, seq_input,
                   provVars, fbVars, agentFrame>>

\* lines 224-239: the coroutines start in list order; each looks its agent up
\* and awaits safe_execute, an exception of registry.get becomes its result
ParStart ==
    /\ run_pc = "par"
    /\ \E i \in 1..Len(run_agents) :
         /\ par_tasks[i].st = "pending"
         /\ \A j \in 1..(i - 1) : par_tasks[j].st # "pending"
         /\ LET name == run_agents[i]
                how == RegistryGet(name)
            IN  IF how = "ok"
                THEN /\ reg_instances' = reg_instances \cup {name}
                     /\ par_tasks' = [par_tasks EXCEPT ![i].st = "running"]
                     /\ UNCHANGED par_order
                ELSE /\ par_tasks' = [par_tasks EXCEPT ![i] =
                            [st |-> "finished", exc |-> TRUE,
                             result |-> ExceptionResult(RegistryError(name, how))]]
                     /\ par_order' = Append(par_order, i)
                     /\ UNCHANGED reg_instances
    /\ UNCHANGED <<adVars, callVars, reg_agents, reg_ctor_raises, context, run_pc, run_task, run_arg, run_mode,
                   run_agents, run_idx, results, inv_log, seq_input, run_result, provVars, fbVars,
                   agentFrame>>

\* lines 231-232: the safe_execute awaited by one coroutine returned
ParAgentDone ==
    /\ run_pc = "par"
    /\ \E i \in 1..Len(run_agents) :
         /\ par_tasks[i].st = "running"
         /\ \E out \in SafeExecuteOutcomes(run_agents[i]) :
              par_tasks' = [par_tasks EXCEPT ![i] =
                               [st |-> "finished", exc |-> out.exc, result |-> out.result]]
         /\ par_order' = Append(par_order, i)
    /\ UNCHANGED <<adVars, callVars, reg_agents, reg_ctor_raises, reg_instances, context, run_pc, run_task,
                   run_arg, run_mode, run_agents, run_idx, results, inv_log, seq_input, run_result,
                   provVars, fbVars, agentFrame>>

\* the execute of an agent class registered by the user, while it runs in a
\* batch, sets a key of input_data["context"]
ParAgentWrite ==
    /\ run_pc = "par"
    /\ \E i \in 1..Len(run_agents) :
         /\ par_tasks[i].st = "running"
         /\ \A k \in 1..Len(par_writes) : par_writes[k].by # i
         /\ context' = DictPut(ReceivedContext(i), ScratchKey, <<run_agents[i]>>)
         /\ par_writes' = Append(par_writes,
                                 [by |-> i, key |-> ScratchKey, value |-> <<run_agents[i]>>])
    /\ initial_context' = CallerSees(context')
    /\ UNCHANGED <<adVars, run_seed, reg_agents, reg_ctor_raises, reg_instances, run_pc, run_task,
                   run_arg, run_mode, run_agents, run_idx, results, par_tasks, par_order,
                   inv_log, seq_input, run_result, provVars, fbVars, agentFrame>>

\* line 244: {name: result for name, result in completed}, from position k on
RECURSIVE Collect(_, _, _)
Collect(tasks, k, res) ==
    IF k > Len(tasks) THEN res
    ELSE Collect(tasks, k + 1, ResultsPut(res, run_agents[k], tasks[k].result))

\* variant: the batch is collected as soon as one coroutine has finished
GatherReady_FirstCompleted == \E i \in 1..Len(run_agents) : par_tasks[i].st = "finished"

\* asyncio.gather resumes _run_parallel
GatherReady == \A i \in 1..Len(run_agents) : par_tasks[i].st = "finished"

\* lines 242-244 and 155-174: gather returned, run builds the PipelineResult
ParGather ==
    /\ run_pc = "par"
    /\ GatherReady
    /\ results' = Collect(par_tasks, 1, <<>>)
    /\ run_result' = PipelineResult(results')
    /\ run_pc' = "done"
    /\ UNCHANGED <<adVars, callVars, reg_agents, reg_ctor_raises, reg_instances, context, run_task, run_arg,
                   run_mode, run_agents, run_idx, par_tasks, par_order, inv_log, seq_input, provVars,
                   fbVars, agentFrame>>

\* the caller of run takes the PipelineResult, or sees the exception
RunReturn ==
    /\ run_pc \in {"done", "raised"}
    /\ run_pc' = "idle"
    /\ run_task' = <<>>
    /\ run_arg' = NONE
    /\ run_mode' = "sequential"
    /\ run_agents' = <<>>
    /\ run_idx' = 1
    /\ results' = <<>>
    /\ par_tasks' = <<>>
    /\ par_order' = <<>>
    /\ inv_log' = <<>>
    /\ seq_input' = NoInput
    /\ run_result' = NoPipelineResult
    /\ run_seed' = EmptyDict
    /\ par_writes' = <<>>
    /\ UNCHANGED <<adVars, initial_context, reg_agents, reg_ctor_raises, reg_instances, context,
                   provVars, fbVars, agentFrame>>

\* ------------------------------------------------------------------------
\* Specification of the dispatcher called directly
\* ------------------------------------------------------------------------
\* the module after import: no adapter built yet
RegistryIdle ==
    /\ provider_instances = {}
    /\ gp_made = [key \in ProviderKeys |-> 0]
    /\ gp_log = <<>>
    /\ ga_result = NONE

OrchIdle ==
    /\ reg_instances = {}
    /\ context = EmptyDict
    /\ run_pc = "idle"
    /\ run_task = <<>>
    /\ run_arg = NONE
    /\ run_mode = "sequential"
    /\ run_agents = <<>>
    /\ run_idx = 1
    /\ results = <<>>
    /\ par_tasks = <<>>
    /\ par_order = <<>>
    /\ inv_log = <<>>
    /\ seq_input = NoInput
    /\ initial_context = NoInitialContext
    /\ run_seed = EmptyDict
    /\ par_writes = <<>>
    /\ run_result = NoPipelineResult

AgentIdle ==
    /\ agent_provider = "<None>"
    /\ metrics = FreshMetrics
    /\ mem_entries = <<>>
    /\ mem_token_estimate = 0
    /\ mem_recent = <<>>
    /\ mem_count = 0
    /\ cr_pc = "idle"
    /\ cr_attempt = 0
    /\ cr_last_error = <<>>
    /\ cr_result = NoResponse
    /\ cr_log = <<>>
    /\ cr_retries0 = 0
    /\ th_pc = "idle"
    /\ th_prompt = <<>>
    /\ th_system = NONE
    /\ th_use_memory = TRUE
    /\ th_messages = <<>>
    /\ th_value = <<>>
    /\ se_pc = "idle"
    /\ se_impl = "core"
    /\ se_thinks = 0
    /\ se_raised = NoException
    /\ se_result = NoResult

\* the calls followed on their own are not running
ExtIdle == ArgsIdle /\ ParseIdle /\ OverlapIdle

FbIdle ==
    /\ fb_pc = "idle"
    /\ fb_caller = "direct"
    /\ fb_arg = NONE
    /\ fb_providers = <<>>
    /\ fb_idx = 1
    /\ fb_errors = <<>>
    /\ fb_result = NoResponse
    /\ fb_attempts = <<>>

InitFallback ==
    /\ api_key \in SUBSET HostedProviders
    /\ RegistryIdle
    /\ FbIdle
    /\ httpx = TRUE
    /\ AdapterIdle
    /\ ExtIdle
    /\ provider_name = "openai"
    /\ max_retries = 3
    /\ AgentIdle
    /\ reg_agents = <<>>
    /\ reg_ctor_raises = {}
    /\ OrchIdle

vars == <<provVars, fbVars, agentVars, memVars, crVars, thVars, seVars, orchVars, adVars>>

NextFallback ==
    \/ FallbackCall
    \/ FallbackTry
    \/ FallbackChatReturn
    \/ FallbackExhausted
    \/ FallbackReturn

SpecFallback == InitFallback /\ [][NextFallback]_vars

\* ------------------------------------------------------------------------
\* Specification of the provider registry called directly
\* ------------------------------------------------------------------------
NextRegistry ==
    \/ GetProviderCall
    \/ AvailableCall

SpecRegistry == InitFallback /\ [][NextRegistry]_vars

\* ------------------------------------------------------------------------
\* Specification of one agent: safe_execute, think, _call_with_retry and the
\* dispatcher it falls back to
\* ------------------------------------------------------------------------
\* environments the agent runs in: which hosted providers have a key
KeyConfigs == {{}, {"openai"}, HostedProviders}

InitAgent ==
    /\ api_key \in KeyConfigs
    /\ RegistryIdle
    /\ FbIdle
    /\ httpx = TRUE
    /\ AdapterIdle
    /\ ExtIdle
    /\ provider_name \in AgentProviders
    /\ max_retries \in 0..MaxRetries
    /\ AgentIdle
    /\ reg_agents = <<>>
    /\ reg_ctor_raises = {}
    /\ OrchIdle

NextAgent ==
    \/ SafeExecuteCall
    \/ ExecThink
    \/ RetryAttempt
    \/ RetryChatReturn
    \/ RetrySleepDone
    \/ RetryFallback
    \/ FallbackTry
    \/ FallbackChatReturn
    \/ FallbackExhausted
    \/ RetryFallbackReturn
    \/ ThinkReturn
    \/ ExecThinkReturned
    \/ ExecThinkRaised
    \/ ExecReturn
    \/ ExecRaise
    \/ SafeExecuteReturn

SpecAgent == InitAgent /\ [][NextAgent]_vars

\* the steps of a running think: every awaited provider call returns or
\* raises, every sleep ends, and the event loop resumes the coroutine
ThinkSteps ==
    \/ RetryAttempt
    \/ RetryChatReturn
    \/ RetrySleepDone
    \/ RetryFallback
    \/ FallbackTry
    \/ FallbackChatReturn
    \/ FallbackExhausted
    \/ RetryFallbackReturn
    \/ ThinkReturn

\* one environment (only OPENAI_API_KEY set), every primary provider and
\* every max_retries
InitAgentLive == InitAgent /\ api_key = {"openai"}

SpecAgentLive == InitAgentLive /\ [][NextAgent]_vars /\ WF_vars(ThinkSteps)

\* ------------------------------------------------------------------------
\* Specification of the sampling arguments of think
\* ------------------------------------------------------------------------
\* nothing but the call that is followed is active
Quiet ==
    /\ api_key = {}
    /\ RegistryIdle
    /\ FbIdle
    /\ httpx = TRUE
    /\ AdapterIdle
    /\ provider_name = "openai"
    /\ AgentIdle
    /\ reg_agents = <<>>
    /\ reg_ctor_raises = {}
    /\ OrchIdle

InitThinkArgs ==
    /\ Quiet
    /\ max_retries = MaxRetries
    /\ OverlapIdle
    /\ self_temperature \in {DefaultTemperature, 7}
    /\ self_max_tokens \in {DefaultMaxTokens, 2000}
    /\ ArgsCallIdle
    /\ ParseIdle

NextThinkArgs ==
    \/ ThinkArgsCall
    \/ ThinkArgsReturn

SpecThinkArgs == InitThinkArgs /\ [][NextThinkArgs]_vars

\* ------------------------------------------------------------------------
\* Specification of parse_json_response
\* ------------------------------------------------------------------------
InitParse ==
    /\ Quiet
    /\ max_retries = MaxRetries
    /\ OverlapIdle
    /\ ArgsIdle
    /\ pj_pc = "idle"
    /\ pj_content \in Completions
    /\ pj_result = NoParse

NextParse ==
    \/ ParseCall
    \/ ParseDone

SpecParse == InitParse /\ [][NextParse]_vars

\* ------------------------------------------------------------------------
\* Specification of overlapping safe_execute calls on one agent
\* ------------------------------------------------------------------------
InitOverlap ==
    /\ Quiet
    /\ max_retries \in 0..MaxRetries
    /\ ArgsIdle
    /\ ParseIdle
    /\ OverlapIdle

NextOverlap ==
    \/ \E c \in Calls : OvStart(c)
    \/ \E c \in Calls : OvThink(c)
    \/ \E c \in Calls : OvAttemptFailed(c)
    \/ \E c \in Calls : ThinkSucceeded(c)
    \/ \E c \in Calls : ThinkFailed(c)
    \/ \E c \in Calls : OvReturn(c)
    \/ \E c \in Calls : OvRaise(c)

SpecOverlap == InitOverlap /\ [][NextOverlap]_vars

\* ------------------------------------------------------------------------
InitOrchestrator ==
    /\ api_key = {}
    /\ RegistryIdle
    /\ FbIdle
    /\ httpx = TRUE
    /\ AdapterIdle
    /\ ExtIdle
    /\ provider_name = "openai"
    /\ max_retries = 3
    /\ AgentIdle
    /\ reg_agents \in Registries
    /\ reg_ctor_raises \in CtorFailures
    /\ OrchIdle

NextOrchestrator ==
    \/ RunCall
    \/ SeqStart
    \/ SeqAgentDone
    \/ SeqFinish
    \/ ParStart
    \/ ParAgentDone
    \/ ParGather
    \/ RunReturn

SpecOrchestrator == InitOrchestrator /\ [][NextOrchestrator]_vars

\* ------------------------------------------------------------------------
\* Specification of the orchestrator in the hands of a user: agent classes
\* that write to the context they are given, and a caller that keeps the
\* dict it passes as initial_context
\* ------------------------------------------------------------------------
InitUser ==
    /\ api_key = {}
    /\ RegistryIdle
    /\ FbIdle
    /\ httpx = TRUE
    /\ AdapterIdle
    /\ ExtIdle
    /\ provider_name = "openai"
    /\ max_retries = 3
    /\ AgentIdle
    /\ reg_agents = <<"frontend", "backend", "docs", "qa">>
    /\ reg_ctor_raises = {}
    /\ OrchIdle

NextUser ==
    \/ RunCallBatch
    \/ RunCallAgain
    \/ SeqStart
    \/ SeqAgentDone
    \/ SeqFinish
    \/ ParStart
    \/ ParAgentWrite
    \/ ParAgentDone
    \/ ParGather
    \/ RunReturn

SpecUser == InitUser /\ [][NextUser]_vars

\* ------------------------------------------------------------------------
\* Specification of one adapter's chat called directly
\* ------------------------------------------------------------------------
InitAdapter ==
    /\ api_key \in {{}, HostedProviders}
    /\ RegistryIdle
    /\ FbIdle
    /\ httpx \in BOOLEAN
    /\ AdapterIdle
    /\ ExtIdle
    /\ provider_name = "openai"
    /\ max_retries = 3
    /\ AgentIdle
    /\ reg_agents = <<>>
    /\ reg_ctor_raises = {}
    /\ OrchIdle

NextAdapter ==
    \/ AdapterCall
    \/ AdapterAnswer
    \/ AdapterReturn

SpecAdapter == InitAdapter /\ [][NextAdapter]_vars

\* ------------------------------------------------------------------------
\* Specification of an AgentMemory used directly
\* ------------------------------------------------------------------------
InitMemory == InitFallback

NextMemory ==
    \/ MemAdd
    \/ MemClear

SpecMemory == InitMemory /\ [][NextMemory]_vars

\* ------------------------------------------------------------------------
\* Properties of chat_with_fallback
\* ------------------------------------------------------------------------
\* the failure text the history records for attempt a
AttemptReason(a) == IF a.kind = "raise" THEN a.exc ELSE Str(a.resp.error)

\* the texts of parts occur in text one after the other, from position from on
RECURSIVE OccurInOrder(_, _, _)
OccurInOrder(text, parts, from) ==
    IF parts = <<>> THEN TRUE
    ELSE \E p \in from..(Len(text) + 1) :
            /\ OccursAt(text, Head(parts), p)
            /\ OccurInOrder(text, Tail(parts), p + Len(Head(parts)))

\* C1: chat_with_fallback tries the listed providers one at a time in list
\* order (the order of get_available_providers() when no list is given); a
\* success is always the last attempt of the call, the call then returns
\* exactly that provider's response, and no later provider is tried.
C1_FirstSuccessWins ==
    /\ fb_pc # "idle" /\ fb_arg = NONE => fb_providers = get_available_providers
    /\ fb_pc # "idle" /\ fb_arg # NONE => fb_providers = fb_arg
    /\ Len(fb_attempts) <= Len(fb_providers)
    /\ \A i \in 1..Len(fb_attempts) : fb_attempts[i].name = fb_providers[i]
    /\ fb_pc = "await" => Len(fb_attempts) = fb_idx - 1
    /\ \A i \in 1..Len(fb_attempts) :
          fb_attempts[i].kind = "ok" =>
            /\ i = Len(fb_attempts)
            /\ fb_pc = "done"
            /\ fb_result = fb_attempts[i].resp
    /\ fb_pc = "done" /\ fb_result.success =>
          /\ fb_attempts # <<>>
          /\ fb_attempts[Len(fb_attempts)].kind = "ok"

\* providers 1..k-1 failed, provider k succeeded, and providers remain after k
C1_Witness ==
    /\ fb_pc = "done"
    /\ fb_result.success
    /\ Len(fb_attempts) >= 2
    /\ Len(fb_attempts) < Len(fb_providers)
    /\ fb_attempts[1].kind = "raise"

\* C2: when every provider of the list fails, the response has success=false
\* and its error holds "<name>: <reason>" for every provider attempted, in
\* attempt order; for an empty list the response is a failure with a non-null
\* error and no provider was invoked.
C2_AllFailuresReported ==
    (fb_pc = "done" /\ \A i \in 1..Len(fb_attempts) : fb_attempts[i].kind # "ok") =>
        /\ ~fb_result.success
        /\ fb_result.error # NONE
        /\ Len(fb_attempts) = Len(fb_providers)
        /\ OccurInOrder(fb_result.error,
                        [i \in 1..Len(fb_attempts) |->
                            <<fb_attempts[i].name, ": ">> \o AttemptReason(fb_attempts[i])],
                        1)

\* two providers failed in different ways and the aggregate was returned
C2_Witness ==
    /\ fb_pc = "done"
    /\ ~fb_result.success
    /\ Len(fb_attempts) >= 2
    /\ fb_attempts[1].kind = "fail"
    /\ fb_attempts[2].kind = "raise"
    /\ fb_attempts[1].name # fb_attempts[2].name

\* ------------------------------------------------------------------------
\* Properties of _call_with_retry
\* ------------------------------------------------------------------------
\* positions of the history holding an event of the given sort
EventsOf(log, ev) == {i \in 1..Len(log) : log[i].ev = ev}

FailedPrimaries(log) == {i \in EventsOf(log, "primary") : log[i].kind # "ok"}

\* C3: when every primary attempt fails, by raising or by success=false,
\* exactly max_retries attempts are made on the primary provider before the
\* fallback dispatcher is invoked, and metrics.retries has grown by exactly
\* max_retries (it grows by one with every failed attempt).
C3_RetriesBeforeFallback ==
    /\ cr_pc # "idle" =>
          metrics.retries = cr_retries0 + Cardinality(FailedPrimaries(cr_log))
    /\ \A j \in EventsOf(cr_log, "fallback") :
          LET before == {i \in EventsOf(cr_log, "primary") : i < j}
          IN  /\ Cardinality(before) = max_retries
              /\ before \subseteq FailedPrimaries(cr_log)
              /\ Lower(provider_name) \in ProviderKeys => \A i \in before : cr_log[i].called
              /\ metrics.retries = cr_retries0 + max_retries

\* the fallback is entered after two primary failures of different sorts, in a
\* call that started with a retry counter already above zero
C3_Witness ==
    /\ cr_pc = "fallback"
    /\ max_retries = 2
    /\ cr_retries0 > 0
    /\ \E i, j \in EventsOf(cr_log, "primary") :
          cr_log[i].kind = "fail" /\ cr_log[j].kind = "raise"

\* C4: one _call_with_retry invokes the fallback dispatcher at most once and
\* only after max_retries failed primary attempts; a successful primary
\* attempt ends the call with that attempt's response, with no later primary
\* call and no fallback call.
C4_FallbackOnceAfterRetries ==
    /\ Cardinality(EventsOf(cr_log, "fallback")) <= 1
    /\ fb_pc # "idle" => cr_pc = "fallback" /\ fb_caller = "retry"
    /\ \A j \in EventsOf(cr_log, "fallback") :
          /\ j = Len(cr_log)
          /\ Cardinality(FailedPrimaries(cr_log)) = max_retries
          /\ cr_attempt = max_retries
    /\ \A i \in EventsOf(cr_log, "primary") :
          cr_log[i].kind = "ok" =>
            /\ i = Len(cr_log)
            /\ cr_pc = "done"
            /\ cr_result = cr_log[i].resp
            /\ EventsOf(cr_log, "fallback") = {}

\* a primary attempt succeeded after an earlier one had failed
C4_Witness ==
    /\ cr_pc = "done"
    /\ Len(cr_log) >= 3
    /\ cr_log[1].ev = "primary" /\ cr_log[1].kind # "ok"
    /\ cr_log[Len(cr_log)].ev = "primary" /\ cr_log[Len(cr_log)].kind = "ok"
    /\ cr_result.content # <<>>

\* ------------------------------------------------------------------------
\* Properties of safe_execute
\* ------------------------------------------------------------------------
\* C5: whatever exception the agent-specific execute raises, safe_execute
\* returns an AgentResult with success=false whose error is the text of the
\* exception; no exception of execute leaves safe_execute.
C5_SafeExecuteCatches ==
    /\ se_pc # "escaped"
    /\ se_raised # NoException =>
          /\ se_pc = "done"
          /\ ~se_result.success
          /\ se_result.error = se_raised.msg

\* execute raised an exception of its own and safe_execute has returned
C5_Witness ==
    /\ se_pc = "done"
    /\ se_raised.type = "KeyError"
    /\ ~se_result.success

\* ------------------------------------------------------------------------
\* Properties of AgentMemory
\* ------------------------------------------------------------------------
\* C10: after any sequence of add calls the log holds at most max_entries
\* entries; once more than max_entries were inserted it holds exactly
\* max_entries, and they are the most recently inserted entries in insertion
\* order.
C10_MemoryKeepsNewest ==
    /\ Len(mem_entries) <= MaxEntries
    /\ mem_count > MaxEntries => Len(mem_entries) = MaxEntries
    /\ mem_count <= MaxEntries => Len(mem_entries) = mem_count
    /\ mem_entries = mem_recent

\* more than max_entries entries were inserted, the evicted one differs from
\* the survivors
C10_Witness ==
    /\ mem_count > MaxEntries
    /\ Len(mem_entries) = MaxEntries
    /\ mem_entries[1].content # mem_entries[MaxEntries].content

\* C11: the memory log is capped by the token estimate as well as by the
\* entry count: after every add the running estimate is at most max_tokens,
\* or the log is empty.
C11_TokenCapRespected == mem_token_estimate <= max_tokens \/ mem_entries = <<>>

\* the sum over entries of len(content) // 4
RECURSIVE SumEstimates(_)
SumEstimates(entries) ==
    IF entries = <<>> THEN 0
    ELSE TokenEstimate(Head(entries).content) + SumEstimates(Tail(entries))

\* C12: in every state of the memory, after any sequence of add and clear,
\* the running token estimate equals the sum over the surviving entries of
\* len(content) // 4.
C12_EstimateMatchesEntries == mem_token_estimate = SumEstimates(mem_entries)

\* entries have been evicted and the survivors weigh 0 and 2 tokens
C12_Witness ==
    /\ mem_count > MaxEntries
    /\ Len(mem_entries) = MaxEntries
    /\ TokenEstimate(mem_entries[1].content) = 0
    /\ TokenEstimate(mem_entries[Len(mem_entries)].content) = 2
    /\ mem_token_estimate > 0

\* ------------------------------------------------------------------------
\* Properties of BaseAgent.think
\* ------------------------------------------------------------------------
\* the system prompt of the running call: a non-empty override, else the agent's own
ExpectedSystem == IF th_system # NONE /\ th_system # <<>> THEN th_system ELSE system_prompt

AfterExchange(entries, prompt, reply) ==
    LET all == entries \o <<[role |-> "user", content |-> prompt],
                            [role |-> "assistant", content |-> reply]>>
    IN  IF Len(all) > MaxEntries
        THEN SubSeq(all, Len(all) - MaxEntries + 1, Len(all)) ELSE all

\* C17: when the provider call succeeds, think appends exactly two entries
\* to memory, the user prompt and then the assistant reply, adds the
\* response's token usage to the cumulative metrics, and returns the reply.
C17_ThinkSuccess ==
    [][(th_pc = "calling" /\ th_pc' # "calling" /\ cr_result.success) =>
          /\ th_pc' = "returned"
          /\ th_value' = cr_result.content
          /\ mem_entries' = AfterExchange(mem_entries, th_prompt, cr_result.content)
          /\ metrics'.tokens_total = metrics.tokens_total + cr_result.total_tokens
          /\ metrics'.errors = metrics.errors]_vars

\* think returned a reply, its second success in this execution
C17_Witness ==
    /\ th_pc = "returned"
    /\ th_value = <<"h", "e", "l", "l", "o">>
    /\ metrics.tokens_total = 4
    /\ Len(mem_entries) = MaxEntries
    /\ mem_entries[Len(mem_entries)] = [role |-> "assistant", content |-> th_value]

\* C18: when retries and fallback are all exhausted, think signals failure
\* to its caller (it raises instead of returning text), appends the error to
\* metrics.errors, and leaves the memory log and the token counters unchanged.
C18_ThinkFailure ==
    [][(th_pc = "calling" /\ th_pc' # "calling" /\ ~cr_result.success) =>
          /\ cr_log # <<>>
          /\ cr_log[Len(cr_log)].ev = "fallback"
          /\ th_pc' = "raised"
          /\ metrics'.errors = Append(metrics.errors, cr_result.error)
          /\ mem_entries' = mem_entries
          /\ mem_token_estimate' = mem_token_estimate
          /\ metrics'.tokens_total = metrics.tokens_total]_vars

\* think raised after an earlier think of the same execution had succeeded
C18_Witness ==
    /\ th_pc = "raised"
    /\ Len(metrics.errors) = 1
    /\ metrics.tokens_total > 0
    /\ mem_entries # <<>>

\* ------------------------------------------------------------------------
\* Properties of the adapters
\* ------------------------------------------------------------------------
\* the failure condition the finished adapter call met, "none" if it met none
AdapterCause ==
    IF CredentialMissing(ad_name) THEN "credential"
    ELSE IF ad_wire.kind = "raise" THEN "transport"
    ELSE IF ad_wire.kind = "status" /\ ad_wire.status # 200 THEN "status"
    ELSE IF ad_wire.kind = "status" /\ ad_wire.shape \in {"not_json", "array", "no_envelope"}
         THEN "unparsable"
    ELSE "none"

ReadsWithDefaults(name) == name \in {"anthropic", "google", "ollama"}

WellFormed(resp) ==
    /\ ~resp.success => resp.content = <<>> /\ resp.error # NONE
    /\ resp.success => resp.error = NONE

\* C14: every LLMResponse an adapter's chat or chat_with_fallback produces
\* satisfies: success=false implies content is empty and error is non-null;
\* success=true implies error is null.
C14_ResponseWellFormed ==
    /\ fb_pc = "done" => WellFormed(fb_result)
    /\ ad_pc = "done" => WellFormed(ad_resp)
    /\ \A name \in ProviderKeys :
          /\ WellFormed(HttpxMissingResponse(name))
          /\ WellFormed(CredentialMissingResponse(name))
          /\ \A w \in AllWires :
                AfterPost(name, w).kind # "raise" => WellFormed(AfterPost(name, w).resp)

\* the dispatcher returned a success with empty content after a failed attempt
C14_Witness ==
    /\ fb_pc = "done"
    /\ fb_result.success
    /\ fb_result.content = <<>>
    /\ Len(fb_attempts) = 2
    /\ ~fb_attempts[1].resp.success
    /\ fb_attempts[1].kind = "fail"

\* positions of the system messages of a list
SystemAt(messages) == {i \in 1..Len(messages) : messages[i].role = "system"}

\* C15: for every adapter and every message list with exactly one system
\* message, at any position, the system message is first in the payload: in
\* the dedicated system field for the Anthropic and Google adapters, at index
\* 0 of the messages array for the OpenAI, Groq and Ollama adapters.
C15_SystemMessageFirst ==
    (ad_pc = "posting" /\ Cardinality(SystemAt(ad_messages)) = 1) =>
        LET sys == ad_messages[CHOOSE i \in SystemAt(ad_messages) : TRUE]
        IN  IF ad_name \in {"anthropic", "google"}
            THEN /\ ad_payload.system = sys.content
                 /\ \A i \in 1..Len(ad_payload.messages) :
                       ad_payload.messages[i].role # "system"
            ELSE /\ ad_payload.messages # <<>>
                 /\ ad_payload.messages[1] = [role |-> "system", content |-> sys.content]

\* the same statement for the hoisting adapters and a non-empty system text
C15_HoldsWhenHoisted ==
    (ad_name \in {"anthropic", "google"}
       /\ \A i \in SystemAt(ad_messages) : ad_messages[i].content # <<>>)
        => C15_SystemMessageFirst

\* the same statement for the other adapters and a list that starts with
\* its system message
C15_HoldsWhenAlreadyFirst ==
    (ad_name \notin {"anthropic", "google"} /\ SystemAt(ad_messages) = {1})
        => C15_SystemMessageFirst

\* ------------------------------------------------------------------------
\* Properties of Orchestrator.run
\* ------------------------------------------------------------------------
\* names with at least one failed execution in the history of a sequential run
FailedNames == {inv_log[j].name : j \in {k \in 1..Len(inv_log) : ~inv_log[k].success}}

\* C6: in sequential mode, when an agent of the list fails with an exception
\* (a name the registry cannot resolve or construct included), every later
\* agent of the list is still executed, the PipelineResult has an entry with
\* success=false for the failing agent and an entry for every other agent,
\* overall success is false, and errors has exactly one entry per failing
\* agent.
C6_SequentialIsolatesFailures ==
    (run_pc = "done" /\ run_mode = "sequential") =>
        \A i \in 1..Len(inv_log) :
            inv_log[i].exc =>
                /\ Len(inv_log) = Len(run_agents)
                /\ \A j \in 1..Len(inv_log) : inv_log[j].name = run_agents[j]
                /\ inv_log[i].name \in ResultKeys(run_result.results)
                /\ ~ResultOf(run_result.results, inv_log[i].name).success
                /\ \A j \in 1..Len(run_agents) :
                      run_agents[j] \in ResultKeys(run_result.results)
                /\ ~run_result.success
                /\ Len(run_result.errors) = Cardinality(FailedNames)

\* the same statement for the lists that name no agent twice
C6_HoldsForDistinctNames ==
    (\A i, j \in 1..Len(run_agents) : run_agents[i] = run_agents[j] => i = j) =>
        C6_SequentialIsolatesFailures

\* the last list position holding the same name as position i
LastOf(i) ==
    CHOOSE j \in 1..Len(run_agents) :
        /\ run_agents[j] = run_agents[i]
        /\ \A k \in 1..Len(run_agents) : run_agents[k] = run_agents[i] => k <= j

\* C7: in parallel mode run resumes only after every agent of the batch has
\* completed or failed, whatever the completion order, and the returned
\* mapping holds under every name of the batch the result its agent
\* produced; a failure neither cancels another agent nor removes a result.
C7_ParallelCollectsAll ==
    (run_pc = "done" /\ run_mode = "parallel") =>
        /\ \A i \in 1..Len(run_agents) : par_tasks[i].st = "finished"
        /\ Len(par_order) = Len(run_agents)
        /\ \A i \in 1..Len(run_agents) :
              /\ run_agents[i] \in ResultKeys(run_result.results)
              /\ ResultOf(run_result.results, run_agents[i]) = par_tasks[LastOf(i)].result

\* three different agents finished out of list order, one failed, one succeeded
C7_Witness ==
    /\ run_pc = "done"
    /\ run_mode = "parallel"
    /\ Len(run_agents) = 3
    /\ Cardinality(Range(run_agents)) = 3
    /\ par_order[1] = 2
    /\ par_order[3] = 1
    /\ par_tasks[2].exc
    /\ par_tasks[1].result.success

\* C8: PipelineResult.success is true exactly when every AgentResult of
\* results is a success, and errors holds exactly one text per failing agent,
\* "<name>: <error>".
C8_PipelineSuccessIffAll ==
    run_pc = "done" =>
        LET res == run_result.results
            errors == run_result.errors
            failing == {i \in 1..Len(res) : ~res[i].result.success}
        IN  /\ res = results
            /\ run_result.success <=> failing = {}
            /\ Len(errors) = Cardinality(failing)
            /\ \A i \in failing :
                  Cardinality({k \in 1..Len(errors) :
                                 errors[k] = <<res[i].name, ": ">> \o Str(res[i].result.error)})
                      = 1

\* a run returned with two failing agents and a successful one
C8_Witness ==
    /\ run_pc = "done"
    /\ Len(run_result.results) = 3
    /\ Len(run_result.errors) = 2
    /\ run_result.results[3].result.success

\* C9: Orchestrator.run returns a PipelineResult for every task, agent list
\* and mode and never raises, also when an agent constructor raises during
\* auto-selection.
C9_RunNeverRaises == run_pc # "raised"

\* ------------------------------------------------------------------------
\* Properties of Orchestrator._run_sequential
\* ------------------------------------------------------------------------
Sequential == run_mode = "sequential" /\ run_pc \in {"seq", "seq_await", "done"}

\* the last list position before i that holds this name
LastBefore(i, name) ==
    CHOOSE j \in 1..(i - 1) :
        /\ inv_log[j].name = name
        /\ \A k \in (j + 1)..(i - 1) : inv_log[k].name # name

\* the input of list position i holds, under the names of the positions
\* before i and under no other, the result each of them returned last
CarriesEarlierResults(i, input) ==
    /\ ResultKeys(input.previous_results) = {run_agents[j] : j \in 1..(i - 1)}
    /\ \A name \in ResultKeys(input.previous_results) :
         ResultOf(input.previous_results, name) = inv_log[LastBefore(i, name)].result

\* C19: in sequential mode the agents are processed one at a time in list
\* order; agent i is started only when every agent before it has completed,
\* and its input carries the shared context, the task, and the results of
\* exactly the agents before it.
C19_SequentialInputs ==
    Sequential =>
        /\ Len(inv_log) = run_idx - 1
        /\ \A j \in 1..Len(inv_log) : inv_log[j].name = run_agents[j]
        /\ \A j \in 1..Len(inv_log) :
             inv_log[j].ran => CarriesEarlierResults(j, inv_log[j].input)
        /\ run_pc = "seq_await" =>
             /\ run_idx <= Len(run_agents)
             /\ seq_input.context = context
             /\ seq_input.task = run_task
             /\ CarriesEarlierResults(run_idx, seq_input)
        /\ run_pc # "seq_await" => seq_input = NoInput

\* the third agent of a list is awaited with the results of a failed and of a
\* successful agent before it
C19_Witness ==
    /\ Sequential
    /\ run_pc = "seq_await"
    /\ run_idx = 3
    /\ Len(seq_input.previous_results) = 2
    /\ ~seq_input.previous_results[1].result.success
    /\ seq_input.previous_results[2].result.success

\* the executions before list position i that returned this name's success
SuccessesBefore(i, name) ==
    {j \in 1..(i - 1) : inv_log[j].name = name /\ inv_log[j].ran /\ inv_log[j].success}

Latest(S) == CHOOSE j \in S : \A k \in S : k <= j

\* the items a dict holds under one key: one, or none
Under(d, key) == {e \in d : e.key = key}

OutputItem(j) == [key |-> OutputKey(inv_log[j].name), value |-> inv_log[j].result.data]

\* the contexts seen from list position i on: the one handed to the agent of
\* position i, and the orchestrator's own once positions 1..i-1 are done
ContextsAt(i) ==
    (IF i <= Len(inv_log) /\ inv_log[i].ran THEN {inv_log[i].input.context} ELSE {})
    \cup (IF i = Len(inv_log) + 1 THEN {context} ELSE {})

\* C20: in sequential mode the output data of each agent that completed is
\* in the context under "<agent_name>_output" from then on, and so in the
\* context passed to every later agent.
C20_EveryOutputInContext ==
    Sequential =>
        \A j \in 1..Len(inv_log) :
            inv_log[j].ran =>
                \A i \in (j + 1)..(Len(inv_log) + 1) :
                    \A ctx \in ContextsAt(i) : OutputItem(j) \in ctx

\* C20, amended: the output data of each agent that completed with
\* success=true is in the context under "<agent_name>_output" from then on,
\* until a later successful run of the same name replaces it, and so in the
\* context passed to every later agent; an agent that failed stores nothing:
\* what the context holds under its key is what the run started with.
C20_SuccessfulOutputInContext ==
    Sequential =>
        \A i \in 1..(Len(inv_log) + 1) :
            \A ctx \in ContextsAt(i) :
                \A j \in 1..(i - 1) :
                    LET name == inv_log[j].name
                        S == SuccessesBefore(i, name)
                    IN  IF S = {}
                        THEN Under(ctx, OutputKey(name)) = Under(run_seed, OutputKey(name))
                        ELSE OutputItem(Latest(S)) \in ctx

\* the third agent is awaited after one agent succeeded and another failed:
\* its context holds the output of the first only
C20_Witness ==
    /\ Sequential
    /\ run_pc = "seq_await"
    /\ run_idx = 3
    /\ inv_log[1].ran /\ inv_log[1].success
    /\ inv_log[2].ran /\ ~inv_log[2].success
    /\ inv_log[1].name # inv_log[2].name
    /\ OutputItem(1) \in seq_input.context
    /\ OutputKey(inv_log[2].name) \notin DictKeys(seq_input.context)

\* ------------------------------------------------------------------------
\* Properties of Orchestrator._run_parallel
\* ------------------------------------------------------------------------
Batch == run_mode = "parallel" /\ run_pc = "par"

Running(j) == par_tasks[j].st = "running"

\* C21: in parallel mode each agent works on a snapshot of the context taken
\* at dispatch: what one agent of the batch writes to the context it received
\* is seen neither by another agent of the batch nor in the orchestrator's own
\* context, and no agent sees the output of another member of the batch.
C21_BatchWritesInvisible ==
    Batch =>
        /\ \A k \in 1..Len(par_writes) :
             LET item == [key |-> par_writes[k].key, value |-> par_writes[k].value]
             IN  /\ item \notin context
                 /\ \A j \in 1..Len(run_agents) :
                      (j # par_writes[k].by /\ Running(j)) => item \notin ReceivedContext(j)
        /\ \A i, j \in 1..Len(run_agents) :
             (i # j /\ Running(j)) =>
                 Under(ReceivedContext(j), OutputKey(run_agents[i]))
                     = Under(run_seed, OutputKey(run_agents[i]))

\* C22: in parallel mode the context holds the output of each agent under
\* "<agent_name>_output" once the batch has settled, and is not touched by the
\* orchestrator while an agent of the batch is running.
C22_BatchOutputsMerged ==
    /\ (Batch /\ par_writes = <<>>) => context = run_seed
    /\ (run_mode = "parallel" /\ run_pc = "done") =>
           \A k \in 1..Len(results) :
               results[k].result.success =>
                   [key |-> OutputKey(results[k].name), value |-> results[k].result.data]
                       \in context

\* ------------------------------------------------------------------------
\* Properties of the context of Orchestrator.run
\* ------------------------------------------------------------------------
\* keys a caller puts into the dict it builds
CallerKeys == UNION {DictKeys(ic.dict) : ic \in InitialContexts}

\* C23: each run starts from a fresh context, the initial_context plus the
\* task under "task": the caller's dict is as the caller passed it, and the
\* context a run starts with holds no key written by an earlier run.
C23_FreshContext ==
    /\ ~initial_context.none => initial_context.dict = initial_context.given
    /\ run_pc # "idle" =>
           /\ run_seed = DictPut(initial_context.given, "task", run_task)
           /\ DictKeys(run_seed) \subseteq CallerKeys \cup {"task"}

\* ------------------------------------------------------------------------
\* Properties of Orchestrator._auto_select_agents
\* ------------------------------------------------------------------------
\* positions of the capability table whose keywords occur in the lower-cased
\* task and which the agent class has
MatchedBy(name) ==
    {k \in 1..Len(capability_keywords) :
        /\ Matches(TextLower(run_task), capability_keywords[k].keywords)
        /\ capability_keywords[k].capability \in Capabilities(name)}

Candidates == {name \in Range(reg_agents) : MatchedBy(name) # {}}

Least(S) == CHOOSE k \in S : \A m \in S : k <= m

RegisteredAt(name) == CHOOSE i \in 1..Len(reg_agents) : reg_agents[i] = name

\* a is met before b when the table is scanned in order and, for each
\* matching capability, the registry in registration order
SeenBefore(a, b) ==
    \/ Least(MatchedBy(a)) < Least(MatchedBy(b))
    \/ Least(MatchedBy(a)) = Least(MatchedBy(b)) /\ RegisteredAt(a) < RegisteredAt(b)

\* the list holds exactly the candidates, each once, in first-seen order
ListsCandidates(list) ==
    /\ Range(list) = Candidates
    /\ \A i, j \in 1..Len(list) : i < j => SeenBefore(list[i], list[j])

Selected == run_arg = NONE /\ run_pc \in {"seq", "seq_await", "par", "done"}

RestApiTask ==
    <<"B", "u", "i", "l", "d", " ", "a", " ", "R", "E", "S", "T", " ", "A", "P", "I", " ",
      "f", "o", "r", " ", "u", "s", "e", "r", " ", "l", "o", "g", "i", "n">>

Scenario == reg_agents = <<"backend">> /\ run_task = RestApiTask

\* C24: with no explicit list, the selected list holds exactly the registered
\* agents with a capability whose keywords match the lower-cased task, each
\* once, in first-seen order; when no capability matches it is the first
\* three registered agents; the REST API task over a registry holding only
\* "backend" selects ["backend"].
C24_SelectsMatchingAgents ==
    Selected =>
        /\ IF AnyCapabilityMatches(run_task)
           THEN ListsCandidates(run_agents)
           ELSE run_agents = Prefix3(reg_agents)
        /\ Scenario => run_agents = <<"backend">>

\* C24, amended: the first three registered agents are selected whenever no
\* registered agent has a matching capability, which includes the case that
\* no capability matches.
C24_SelectsMatchingOrFirstThree ==
    Selected =>
        /\ IF Candidates # {}
           THEN ListsCandidates(run_agents)
           ELSE run_agents = Prefix3(reg_agents)
        /\ Scenario => run_agents = <<"backend">>

\* the scenario of the claim, and a selection of three agents reached by
\* several capabilities
C24_Witness ==
    /\ Selected
    /\ \/ Scenario /\ run_agents = <<"backend">>
       \/ run_task = RestApiTask /\ Len(run_agents) = 3

\* C25: a run that resolved no agent at all, from an empty explicit list or
\* from auto-selection over an empty registry, reports it: the errors of its
\* PipelineResult hold an entry.
C25_EmptySelectionReported ==
    (run_pc = "done" /\ run_agents = <<>>) =>
        /\ run_result.errors # <<>>
        /\ ~run_result.success

\* ------------------------------------------------------------------------
\* Properties of the provider registry
\* ------------------------------------------------------------------------
KeyOf(name) == Lower(IF name = NoName THEN DefaultProvider ELSE name)

\* C26: over any sequence of get_provider calls each provider name is
\* constructed at most once, and every call for a name returns the same
\* adapter instance.
C26_ConstructedOnce ==
    /\ \A key \in ProviderKeys : gp_made[key] <= 1
    /\ \A e, f \in provider_instances : e.name = f.name => e = f
    /\ \A i, j \in 1..Len(gp_log) :
         (~gp_log[i].raised /\ ~gp_log[j].raised
            /\ KeyOf(gp_log[i].name) = KeyOf(gp_log[j].name))
             => gp_log[i].instance = gp_log[j].instance

\* three calls for one provider, under two spellings and as the default
C26_Witness ==
    /\ Len(gp_log) = 3
    /\ gp_log[1].name = "OpenAI"
    /\ gp_log[2].name = "openai"
    /\ gp_log[3].name = NoName
    /\ gp_log[3].instance = gp_log[1].instance
    /\ gp_made["openai"] = 1

\* C27: get_provider called with a name that is no registry key raises the
\* error naming it, returns no adapter and leaves _provider_instances as it
\* was.
C27_UnknownNameRaises ==
    \A i \in 1..Len(gp_log) :
        KeyOf(gp_log[i].name) \notin ProviderKeys =>
            /\ gp_log[i].raised
            /\ gp_log[i].error = UnknownProviderError(gp_log[i].name)
            /\ gp_log[i].instance = NoInstance
            /\ gp_log[i].after = gp_log[i].before

\* an unknown name is asked for while an adapter is memoized
C27_Witness ==
    \E i \in 1..Len(gp_log) :
        /\ gp_log[i].name = "bogus"
        /\ gp_log[i].raised
        /\ gp_log[i].before # {}

\* C29: get_available_providers returns, in registry order, exactly the
\* providers for which a credential or a base URL was found: a hosted
\* provider without an API key is not listed.
C29_AvailableMeansConfigured ==
    ga_result # NONE =>
        /\ \A i, j \in 1..Len(ga_result) :
             i < j => \E a, b \in 1..Len(PROVIDERS) :
                         a < b /\ PROVIDERS[a] = ga_result[i] /\ PROVIDERS[b] = ga_result[j]
        /\ \A name \in HostedProviders :
             name \notin api_key => name \notin Range(ga_result)
        /\ \A name \in api_key \cup {"ollama"} : name \in Range(ga_result)

\* ------------------------------------------------------------------------
\* Properties of BaseAgent._call_with_retry
\* ------------------------------------------------------------------------
\* C28: when the agent's primary provider name is no recognised provider,
\* the call fails with that configuration error: the lookup is made once,
\* no backoff wait follows it and no other provider is used in its place.
C28_UnknownPrimaryIsFatal ==
    (max_retries >= 1 /\ agent_provider = "<None>"
        /\ KeyOf(provider_name) \notin ProviderKeys) =>
        /\ Cardinality(EventsOf(cr_log, "primary")) <= 1
        /\ EventsOf(cr_log, "wait") = {}
        /\ EventsOf(cr_log, "fallback") = {}
        /\ cr_pc = "done" =>
             /\ ~cr_result.success
             /\ cr_result.error = UnknownProviderError(provider_name)

\* the 0-based index of the primary attempt at position i of the history
AttemptAt(log, i) == Cardinality({k \in EventsOf(log, "primary") : k < i})

\* C30: after the failed attempt of 0-based index a the runtime waits
\* 2^a + 0.1*a seconds (here in tenths of a second), once after every failed
\* attempt but the last one: max_retries failed attempts make max_retries-1
\* waits and no wait precedes the fallback.
C30_BackoffWaits ==
    /\ \A j \in EventsOf(cr_log, "wait") :
         /\ j - 1 \in FailedPrimaries(cr_log)
         /\ cr_log[j].wait = 10 * (2 ^ AttemptAt(cr_log, j - 1)) + AttemptAt(cr_log, j - 1)
    /\ \A i \in FailedPrimaries(cr_log) :
         IF AttemptAt(cr_log, i) < max_retries - 1
         THEN i < Len(cr_log) /\ cr_log[i + 1].ev = "wait"
         ELSE i = Len(cr_log) \/ cr_log[i + 1].ev # "wait"
    /\ \A j \in EventsOf(cr_log, "fallback") :
         /\ j > 1 => cr_log[j - 1].ev # "wait"
         /\ max_retries >= 1 =>
              Cardinality(EventsOf(cr_log, "wait")) = max_retries - 1

\* three attempts failed: waits of 1.0 s and 2.1 s, then the fallback
C30_Witness ==
    /\ max_retries = 3
    /\ cr_pc = "fallback"
    /\ Len(cr_log) = 6
    /\ cr_log[2].ev = "wait" /\ cr_log[2].wait = 10
    /\ cr_log[4].ev = "wait" /\ cr_log[4].wait = 21
    /\ cr_log[5].ev = "primary"
    /\ cr_log[6].ev = "fallback"

\* ------------------------------------------------------------------------
\* Properties of the PipelineResult
\* ------------------------------------------------------------------------
\* C36: for every run, in either mode, the keys of PipelineResult.results are
\* exactly the agent names that were supplied or auto-selected.
C36_ResultsCoverAgents ==
    run_pc = "done" =>
        /\ ResultKeys(run_result.results) = Range(run_agents)
        /\ \A i, j \in 1..Len(run_result.results) :
             run_result.results[i].name = run_result.results[j].name => i = j

\* a finished run of each mode over a list with an unknown agent, a failing
\* one and a name given twice
C36_Witness ==
    /\ run_pc = "done"
    /\ Len(run_agents) = 3
    /\ Cardinality(Range(run_agents)) = 2
    /\ "ghost" \in ResultKeys(run_result.results)
    /\ \E k \in 1..Len(run_result.results) : ~run_result.results[k].result.success

\* ------------------------------------------------------------------------
\* Termination of _call_with_retry
\* ------------------------------------------------------------------------
\* primary attempts of the history in which provider.chat was called
PrimaryCalls(log) == {i \in EventsOf(log, "primary") : log[i].called}

\* the calls made so far stay within the bound: at most max_retries on the
\* primary provider, all before the fallback, and the fallback walks the list
\* of available providers once, in order
CallsBounded ==
    /\ Cardinality(PrimaryCalls(cr_log)) <= max_retries
    /\ \A i \in EventsOf(cr_log, "primary"), j \in EventsOf(cr_log, "fallback") : i < j
    /\ cr_pc = "fallback" =>
         /\ fb_providers = get_available_providers
         /\ Len(fb_attempts) <= Len(fb_providers)
         /\ \A k \in 1..Len(fb_attempts) : fb_attempts[k].name = fb_providers[k]
         /\ \A a, b \in 1..Len(fb_providers) : fb_providers[a] = fb_providers[b] => a = b

\* C35: assuming every provider call returns or raises, _call_with_retry ends
\* after at most max_retries calls to the primary provider followed by at most
\* one call to each available provider, so think always returns a reply or
\* signals failure.
C35_RetryTerminates ==
    /\ []CallsBounded
    /\ (th_pc = "calling") ~> (th_pc \in {"returned", "raised"})

\* the longest call: every primary attempt and every available provider failed
C35_Witness ==
    /\ th_pc = "calling"
    /\ cr_pc = "fallback"
    /\ fb_pc = "done"
    /\ ~fb_result.success
    /\ max_retries = 2
    /\ Cardinality(PrimaryCalls(cr_log)) = max_retries
    /\ Len(fb_attempts) = Len(get_available_providers)
    /\ Len(fb_attempts) >= 2

\* ------------------------------------------------------------------------
\* Properties of the sampling arguments
\* ------------------------------------------------------------------------
\* what the caller asked for: the override when one is supplied
Asked(arg, default) == IF arg.given THEN arg.value ELSE default

\* C39: think passes the caller's temperature and max_tokens overrides to the
\* provider whenever they are supplied, the value 0 included; the agent-level
\* defaults are used only when no override is given.
C39_OverridesPassed ==
    ta_pc = "called" =>
        /\ ta_passed.temperature = Asked(ta_temperature, self_temperature)
        /\ ta_passed.max_tokens = Asked(ta_max_tokens, self_max_tokens)

\* what the code does keep: overrides other than 0 are passed, and so is
\* json_mode
C39_HoldsForNonZero ==
    ta_pc = "called" =>
        /\ ta_temperature.value # 0 =>
             ta_passed.temperature = Asked(ta_temperature, self_temperature)
        /\ ta_max_tokens.value # 0 =>
             ta_passed.max_tokens = Asked(ta_max_tokens, self_max_tokens)
        /\ ~ta_temperature.given => ta_passed.temperature = self_temperature
        /\ ~ta_max_tokens.given => ta_passed.max_tokens = self_max_tokens
        /\ ta_passed.json_mode = ta_json_mode

\* ------------------------------------------------------------------------
\* Properties of parse_json_response
\* ------------------------------------------------------------------------
\* number of opening braces of a text
Opens(t) == Cardinality({i \in 1..Len(t) : t[i] = "{"})

\* C32: for every completion text, unbalanced or adversarially nested braces
\* included, parse_json_response returns a value without raising; a value
\* that is not decoded JSON is the fallback object with its raw text and its
\* parse error.
C32_ParseNeverRaises ==
    pj_pc # "idle" =>
        /\ pj_pc = "returned"
        /\ pj_result.kind \in {"parsed", "fallback"}
        /\ pj_result.kind = "fallback" => pj_result.parse_error # <<>>

\* what the code does keep: a text with no more opening braces than the
\* decoder may nest never makes the call raise
C32_HoldsWithinRecursionLimit ==
    (pj_pc # "idle" /\ Opens(pj_content) <= RecursionLimit) =>
        /\ pj_pc = "returned"
        /\ pj_result.kind \in {"parsed", "fallback"}
        /\ pj_result.kind = "fallback" => pj_result.parse_error # <<>>

\* prose after the object: letters and blanks, at least one letter
PlainText(t) ==
    /\ \E i \in 1..Len(t) : t[i] = "k"
    /\ \A i \in 1..Len(t) : t[i] \in {"k", " "}

\* position i of t lies inside a string
InString(t, i) == Cardinality({q \in 1..(i - 1) : t[q] = Quote}) % 2 = 1

BraceInString(t) == \E i \in 1..Len(t) : t[i] \in {"{", "}"} /\ InString(t, i)

\* the ways to read the completion as an object followed by prose
ObjectThenText ==
    {k \in 1..Len(pj_content) :
        /\ SubSeq(pj_content, 1, k) \in Objects
        /\ PlainText(SubSeq(pj_content, k + 1, Len(pj_content)))}

\* C33: for every completion made of a valid JSON object followed by trailing
\* non-JSON text, parse_json_response returns that object, whatever the
\* object's string values contain, brace characters included.
C33_ObjectBeforeTrailingText ==
    pj_pc # "idle" =>
        \A k \in ObjectThenText :
            pj_result = Parsed(Canon(SubSeq(pj_content, 1, k), FALSE))

\* what the code does keep: the object is returned when its strings hold no
\* brace and its nesting stays within the decoder's limit
C33_HoldsWithoutBracesInStrings ==
    pj_pc # "idle" =>
        \A k \in ObjectThenText :
            LET object == SubSeq(pj_content, 1, k)
            IN  (~BraceInString(object) /\ Opens(object) <= RecursionLimit) =>
                    pj_result = Parsed(Canon(object, FALSE))

\* C34: when parsing degrades to raw passthrough, the fallback object carries
\* the original completion text unchanged, also when the completion was
\* wrapped in a code fence.
C34_FallbackKeepsOriginal ==
    (pj_pc = "returned" /\ pj_result.kind = "fallback") =>
        pj_result.raw_content = pj_content

\* what the code does keep: a completion without a fence and without blanks
\* at its ends is passed through as it is
C34_HoldsForBareText ==
    (pj_pc = "returned" /\ pj_result.kind = "fallback"
       /\ ~Contains(pj_content, Fence) /\ strip(pj_content) = pj_content) =>
        pj_result.raw_content = pj_content

\* ------------------------------------------------------------------------
\* Properties of overlapping calls on one agent
\* ------------------------------------------------------------------------
\* the retries, tokens and errors a metrics record shows
Counts(m) == [retries |-> m.retries, tokens_total |-> m.tokens_total, errors |-> m.errors]

\* the record attached to the AgentResult of call c, as it reads now
Attached(c) == ov_heap[ov_result[c].metrics]

\* C37: when two safe_execute calls on the same agent instance overlap, the
\* metrics attached to each returned AgentResult count only that call's
\* retries, tokens and errors.
C37_OverlapKeepsMetricsApart ==
    \A c \in Calls :
        (ov_pc[c] = "done" /\ ov_overlapped[c]) => Counts(Attached(c)) = ov_own[c]

\* C31: each safe_execute call sets end time and duration on its metrics
\* before it returns, on the normal and on the exception path, and the
\* retries, tokens and errors of the record at return are those of that call.
C31_MetricsPerCall ==
    \A c \in Calls :
        ov_pc[c] = "done" =>
            /\ Attached(c).end_time
            /\ Counts(Attached(c)) = ov_own[c]

\* what the code does keep: the record of a returned call has its end time,
\* and a call that no other call overlapped has a record of its own events
C31_HoldsWithoutOverlap ==
    \A c \in Calls :
        ov_pc[c] = "done" =>
            /\ Attached(c).end_time
            /\ ~ov_overlapped[c] => Counts(Attached(c)) = ov_own[c]

\* the turns of the shared memory: positions holding the prompt and the reply
\* of the k-th think of call c
PromptAt(c, k) == {i \in 1..Len(ov_memory) : ov_memory[i] = [role |-> "user",
                                                            content |-> PromptOf(c, k)]}

ReplyAt(c, k) == {i \in 1..Len(ov_memory) : ov_memory[i] = [role |-> "assistant",
                                                           content |-> ReplyOf(c, k)]}

\* C38: under any interleaving of overlapping think calls on one agent,
\* memory stays a sequence of complete turns: whenever a call's prompt and its
\* reply are both in memory, the reply is the entry right after the prompt.
C38_TurnsStayTogether ==
    \A c \in Calls, k \in 1..MaxThinks :
        /\ \A i \in PromptAt(c, k) : i < Len(ov_memory) => i + 1 \in ReplyAt(c, k)
        /\ \A j \in ReplyAt(c, k) : j > 1 => j - 1 \in PromptAt(c, k)
        /\ Cardinality(PromptAt(c, k)) <= 1
        /\ Cardinality(ReplyAt(c, k)) <= 1

\* two calls overlapped and the memory holds a turn of each, the turn of the
\* call that started first stored last
C38_Witness ==
    /\ \A c \in Calls : ov_overlapped[c]
    /\ Len(ov_memory) = 4
    /\ PromptAt(2, 1) = {1} /\ ReplyAt(2, 1) = {2}
    /\ PromptAt(1, 1) = {3} /\ ReplyAt(1, 1) = {4}
    /\ ov_pc[1] = "executing"
    /\ ov_pc[2] = "awaiting"

====
